---------------------------- MODULE Spec2Model ----------------------------
(***************************************************************************)
(* A model of the lwhlisp evaluator (src/src/atom/eval.rs, the old_eval    *)
(* family), its value type (src/src/atom.rs) and its environments          *)
(* (src/src/env.rs), driven by a read-eval loop over a persistent          *)
(* environment as in src/src/tests/mod.rs run_code.                        *)
(*                                                                         *)
(* Values are records tagged by the variant of Atom.  An Env is the        *)
(* sequence of its frames, innermost first: Env { bindings, parent } owns  *)
(* its parent by value (Option<Box<Env>>), so an environment is exactly    *)
(* the list of the binding maps on its parent chain.  Numbers are f64 in   *)
(* the source; they are modelled as exact fractions n/d with d = 0 for     *)
(* the infinities (n = 1, -1) and NaN (n = 0).                             *)
(***************************************************************************)
EXTENDS Integers, Sequences, FiniteSets, TLC

VARIABLES env, last, steps

vars == <<env, last, steps>>

(***************************************************************************)
(* Bounds of the model.                                                    *)
(***************************************************************************)
\* number of top-level expressions one session evaluates
MaxSteps == 3
\* depth of nested old_eval calls the host stack is taken to allow
MaxDepth == 12

(***************************************************************************)
(* Atom: the value type (atom.rs 13-33) and its constructors.              *)
(***************************************************************************)
Number(n, d) == [tag |-> "Number", n |-> n, d |-> d]
integer(i) == Number(i, 1)
String(s) == [tag |-> "String", s |-> s]
symbol(s) == [tag |-> "Symbol", name |-> s]
Pair(a, b) == [tag |-> "Pair", car |-> a, cdr |-> b]
NativeFunc(f) == [tag |-> "NativeFunc", f |-> f]
\* a closure that captures no binding of the environment it is created in
Closure_without_env(e, a, b) ==
    [tag |-> "Closure", env |-> << [k \in {} |-> 0] >>, args |-> a, body |-> b]

Closure(e, a, b) == [tag |-> "Closure", env |-> e, args |-> a, body |-> b]
Macro(e, a, b) == [tag |-> "Macro", env |-> e, args |-> a, body |-> b]

nil == symbol("nil")
t == symbol("t")
bool(b) == IF b THEN t ELSE nil

is_nil(a) == a.tag = "Symbol" /\ a.name = "nil"
as_bool(a) == ~is_nil(a)
is_list(a) == a.tag = "Pair"

\* lenient accessors: a non-pair is its own car and cdr
car(a) == IF a.tag = "Pair" THEN a.car ELSE a
cdr(a) == IF a.tag = "Pair" THEN a.cdr ELSE a

RECURSIVE is_proper_list(_)
is_proper_list(a) ==
    IF is_nil(a) THEN TRUE
    ELSE IF a.tag = "Pair" THEN is_proper_list(a.cdr)
    ELSE FALSE

(***************************************************************************)
(* Env (env.rs 362-410).                                                   *)
(***************************************************************************)
EmptyBindings == [k \in {} |-> nil]

\* HashMap::insert
Insert(f, k, v) == [x \in (DOMAIN f) \cup {k} |-> IF x = k THEN v ELSE f[x]]

\* Env::new(parent): parent is <<>> for None, or the chain of Some(parent)
EnvNew(parent) == <<EmptyBindings>> \o parent

\* Env::get that prefers the farthest frame that binds the name
EnvGetFrom_farthest(e, name, i) ==
    LET binders == {j \in i..Len(e) : name \in DOMAIN e[j]}
    IN  IF binders = {} THEN [ok |-> FALSE, val |-> nil]
        ELSE [ok |-> TRUE,
              val |-> e[CHOOSE j \in binders : \A k \in binders : k <= j][name]]

RECURSIVE EnvGetFrom(_, _, _)
EnvGetFrom(e, name, i) ==
    IF i > Len(e) THEN [ok |-> FALSE, val |-> nil]
    ELSE IF name \in DOMAIN e[i] THEN [ok |-> TRUE, val |-> e[i][name]]
    ELSE EnvGetFrom(e, name, i + 1)

EnvGet(e, name) == EnvGetFrom(e, name, 1)

\* Env::set that also replaces the binding in every ancestor that has one
EnvSet_through_chain(e, name, value) ==
    [i \in 1..Len(e) |->
        IF i = 1 \/ name \in DOMAIN e[i] THEN Insert(e[i], name, value) ELSE e[i]]

EnvSet(e, name, value) == [e EXCEPT ![1] = Insert(e[1], name, value)]

\* add_furthest_parent attaching the parent right under the first frame instead
\* of at the end of the chain
add_nearest_parent(self, parent) == <<Head(self)>> \o parent \o Tail(self)

\* env.rs 402-409: the chain of self, then the chain of parent
add_furthest_parent(self, parent) == self \o parent

(***************************************************************************)
(* f64 arithmetic on the exact fractions (env.rs 182-346 use +, -, *, /,   *)
(* %, ==, <, <=, >, >= of f64).  Signed zero is not modelled.              *)
(***************************************************************************)
RECURSIVE Gcd(_, _)
Gcd(a, b) == IF b = 0 THEN a ELSE Gcd(b, a % b)

Abs(i) == IF i < 0 THEN 0 - i ELSE i
Sgn(i) == IF i < 0 THEN 0 - 1 ELSE IF i > 0 THEN 1 ELSE 0

NaN == Number(0, 0)
IsNaN(x) == x.d = 0 /\ x.n = 0
IsInf(x) == x.d = 0 /\ x.n # 0

\* the fraction a/b in lowest terms with a positive denominator
Frac(a, b) ==
    IF b = 0 THEN Number(Sgn(a), 0)
    ELSE LET g == Gcd(Abs(a), Abs(b))
         IN  Number(Sgn(b) * (a \div g), Abs(b) \div g)

f64_add(x, y) ==
    IF IsNaN(x) \/ IsNaN(y) THEN NaN
    ELSE IF IsInf(x) /\ IsInf(y) THEN (IF x.n = y.n THEN x ELSE NaN)
    ELSE IF IsInf(x) THEN x
    ELSE IF IsInf(y) THEN y
    ELSE Frac(x.n * y.d + y.n * x.d, x.d * y.d)

f64_neg(x) == Number(0 - x.n, x.d)

f64_sub(x, y) == f64_add(x, f64_neg(y))

f64_mul(x, y) ==
    IF IsNaN(x) \/ IsNaN(y) THEN NaN
    ELSE IF IsInf(x) \/ IsInf(y) THEN Number(Sgn(x.n) * Sgn(y.n), 0)
    ELSE Frac(x.n * y.n, x.d * y.d)

f64_div(x, y) ==
    IF IsNaN(x) \/ IsNaN(y) THEN NaN
    ELSE IF IsInf(x) THEN (IF IsInf(y) THEN NaN
                           ELSE Number(x.n * (IF y.n < 0 THEN 0 - 1 ELSE 1), 0))
    ELSE IF IsInf(y) THEN integer(0)
    ELSE IF y.n = 0 THEN Number(Sgn(x.n), 0)
    ELSE Frac(x.n * y.d, x.d * y.n)

\* truncation of a/b toward zero, b > 0
Trunc(a, b) == Sgn(a) * (Abs(a) \div b)

f64_rem(x, y) ==
    IF IsNaN(x) \/ IsNaN(y) \/ IsInf(x) THEN NaN
    ELSE IF IsInf(y) THEN x
    ELSE IF y.n = 0 THEN NaN
    ELSE LET q == Frac(x.n * y.d, x.d * y.n)
         IN  f64_sub(x, f64_mul(integer(Trunc(q.n, q.d)), y))

f64_eq(x, y) == ~IsNaN(x) /\ ~IsNaN(y) /\ x.n = y.n /\ x.d = y.d

f64_lt(x, y) ==
    IF IsNaN(x) \/ IsNaN(y) THEN FALSE
    ELSE IF IsInf(x) THEN x.n < 0 /\ ~(IsInf(y) /\ y.n < 0)
    ELSE IF IsInf(y) THEN y.n > 0
    ELSE x.n * y.d < y.n * x.d

f64_le(x, y) == f64_lt(x, y) \/ f64_eq(x, y)

(***************************************************************************)
(* impl PartialEq for Atom (atom.rs 35-47) and the derived PartialEq of    *)
(* Env (env.rs 11).                                                        *)
(***************************************************************************)
RECURSIVE atom_eq(_, _), bindings_eq(_, _), env_eq(_, _, _)
atom_eq(a, b) ==
    IF a.tag = "Number" /\ b.tag = "Number" THEN f64_eq(a, b)
    ELSE IF a.tag = "Symbol" /\ b.tag = "Symbol" THEN a.name = b.name
    ELSE IF a.tag = "Pair" /\ b.tag = "Pair"
         THEN atom_eq(a.car, b.car) /\ atom_eq(a.cdr, b.cdr)
    ELSE IF a.tag = "Closure" /\ b.tag = "Closure"
         THEN env_eq(a.env, b.env, 1) /\ atom_eq(a.args, b.args) /\ atom_eq(a.body, b.body)
    ELSE FALSE

bindings_eq(f, g) ==
    /\ DOMAIN f = DOMAIN g
    /\ \A k \in DOMAIN f : atom_eq(f[k], g[k])

env_eq(e1, e2, i) ==
    IF i > Len(e1) \/ i > Len(e2) THEN Len(e1) = Len(e2)
    ELSE bindings_eq(e1[i], e2[i]) /\ env_eq(e1, e2, i + 1)

(***************************************************************************)
(* Renderings: impl Debug (atom.rs 50-99) and Display / pretty_print       *)
(* (atom.rs 101-186).                                                      *)
(***************************************************************************)
\* digits of the fraction r/d (0 <= r < d), at most k of them, trailing zeros dropped
RECURSIVE FracDigits(_, _, _)
FracDigits(r, d, k) ==
    IF r = 0 \/ k = 0 THEN ""
    ELSE ToString((r * 10) \div d) \o FracDigits((r * 10) % d, d, k - 1)

\* write!(f, "{}", i) for an f64
fmt_f64(x) ==
    IF IsNaN(x) THEN "NaN"
    ELSE IF IsInf(x) THEN (IF x.n > 0 THEN "inf" ELSE "-inf")
    ELSE IF x.d = 1 THEN ToString(x.n)
    ELSE (IF x.n < 0 THEN "-" ELSE "") \o ToString(Abs(x.n) \div x.d) \o "."
         \o FracDigits(Abs(x.n) % x.d, x.d, 16)

RECURSIVE fmt_debug(_), fmt_pair_debug(_), fmt_tail_debug(_)
fmt_debug(a) ==
    CASE a.tag = "Number" -> fmt_f64(a)
      [] a.tag = "Symbol" -> a.name
      [] a.tag = "Pair" -> "(" \o fmt_pair_debug(a) \o ")"
      [] a.tag = "NativeFunc" -> "#<BUILTIN>"
      [] a.tag = "Closure" -> "(lambda " \o fmt_debug(a.args) \o " " \o fmt_pair_debug(a.body) \o ")"
      [] a.tag = "Macro" -> "(defmacro " \o fmt_debug(a.args) \o " " \o fmt_pair_debug(a.body) \o ")"
      [] a.tag = "String" -> "\"" \o a.s \o "\""

\* the while loop of fmt_pair_debug over the cdr chain
fmt_tail_debug(a) ==
    IF is_nil(a) THEN ""
    ELSE IF a.tag = "Pair" THEN " " \o fmt_debug(a.car) \o fmt_tail_debug(a.cdr)
    ELSE " . " \o fmt_debug(a)

\* on a non-pair the source returns fmt::Error; nothing is written
fmt_pair_debug(a) ==
    IF a.tag = "Pair" THEN fmt_debug(a.car) \o fmt_tail_debug(a.cdr) ELSE ""

RECURSIVE get_list_lenght_including_inner_without_symbol(_)
get_list_lenght_including_inner_without_symbol(a) ==
    IF a.tag = "Pair"
    THEN get_list_lenght_including_inner_without_symbol(a.car)
         + get_list_lenght_including_inner_without_symbol(a.cdr)
    ELSE 1

get_list_lenght_including_inner(a) ==
    IF a.tag = "Pair"
    THEN get_list_lenght_including_inner_without_symbol(a.car)
         + get_list_lenght_including_inner_without_symbol(a.cdr)
    ELSE IF a.tag = "Symbol" THEN Len(a.name)
    ELSE 1

RECURSIVE Spaces(_)
Spaces(n) == IF n = 0 THEN "" ELSE "   " \o Spaces(n - 1)

RECURSIVE pretty_print(_, _), pretty_tail_short(_), pretty_tail_long(_, _, _, _)
pretty_print(a, indent_level) ==
    IF a.tag = "Pair" /\ get_list_lenght_including_inner(a) <= 12
    THEN "(" \o pretty_print(a.car, 0) \o pretty_tail_short(a.cdr) \o ")"
    ELSE IF a.tag = "Pair"
    THEN LET print_on_first_line ==
                 /\ a.car.tag = "Symbol"
                 /\ a.car.name \in {"if", "define", "defmacro", "lambda"}
         IN  "(" \o pretty_print(a.car, indent_level + 1)
                 \o pretty_tail_long(a.cdr, indent_level, print_on_first_line, TRUE) \o ")"
    ELSE IF a.tag = "Macro"
    THEN pretty_print(Pair(symbol("defmacro"), Pair(a.args, a.body)), indent_level)
    ELSE fmt_debug(a)

pretty_tail_short(a) ==
    IF is_nil(a) THEN ""
    ELSE IF a.tag = "Pair" THEN " " \o pretty_print(a.car, 0) \o pretty_tail_short(a.cdr)
    ELSE " . " \o pretty_print(a, 0)

pretty_tail_long(a, indent_level, print_on_first_line, first_arg) ==
    IF is_nil(a) THEN ""
    ELSE IF a.tag = "Pair"
    THEN (IF print_on_first_line /\ first_arg
          THEN " " \o pretty_print(a.car, indent_level + 1)
          ELSE "\n" \o Spaces(indent_level + 1) \o pretty_print(a.car, indent_level + 1))
         \o pretty_tail_long(a.cdr, indent_level, print_on_first_line, FALSE)
    ELSE " . " \o pretty_print(a, 0)

\* env.rs 352-360
format_for_print(arg) == IF arg.tag = "String" THEN arg.s ELSE pretty_print(arg, 0)

(***************************************************************************)
(* The primitives registered by Env::default (env.rs 36-346).  A native    *)
(* function takes the list of evaluated arguments and gives                *)
(* [ok, val, err, out]: out is what it writes to standard output.          *)
(***************************************************************************)
ErrOneArgument == "Builtin expected exactly one argument"
ErrTwoArguments == "Builtin expected exactly two arguments"
ErrExpectedNumber == "Expected a number"
ErrExpectedString == "Builtin string-length expected its argument to be a string"

UnaryBuiltins == {"into-pretty-string", "into-string", "print", "println", "pair?",
                  "symbol?", "string?", "string-length", "car", "cdr"}
BinaryBuiltins == {"cons", "+", "-", "*", "/", "%", "=", "<", "<=", ">", ">="}
Builtins == UnaryBuiltins \cup BinaryBuiltins

NOk(v) == [ok |-> TRUE, val |-> v, err |-> "", out |-> <<>>]
NOut(v, o) == [ok |-> TRUE, val |-> v, err |-> "", out |-> <<o>>]
NErr(e) == [ok |-> FALSE, val |-> nil, err |-> e, out |-> <<>>]

\* the guard of every one-argument primitive
unary_arity_ok(args) == ~(is_nil(args) \/ ~is_nil(cdr(args)))

\* the guard of every two-argument primitive
binary_arity_ok(args) == ~(is_nil(args) \/ is_nil(cdr(args)) \/ ~is_nil(cdr(cdr(args))))

\* the body of the arithmetic and comparison primitives, after get_number on both
NumericOp(f, x, y) ==
    CASE f = "+" -> f64_add(x, y)
      [] f = "-" -> f64_sub(x, y)
      [] f = "*" -> f64_mul(x, y)
      [] f = "/" -> f64_div(x, y)
      [] f = "%" -> f64_rem(x, y)
      [] f = "<" -> bool(f64_lt(x, y))
      [] f = "<=" -> bool(f64_le(x, y))
      [] f = ">" -> bool(f64_lt(y, x))
      [] f = ">=" -> bool(f64_le(y, x))

\* UnaryBuiltin whose car and cdr are strict_cdr-like: nil for nil, an error for
\* any other value that is not a pair
UnaryBuiltin_strict(f, arg) ==
    CASE f = "into-pretty-string" -> NOk(String(pretty_print(arg, 0)))
      [] f = "into-string" -> NOk(String(fmt_debug(arg)))
      [] f = "print" -> NOut(String(format_for_print(arg)), format_for_print(arg))
      [] f = "println" -> NOut(String(format_for_print(arg)), format_for_print(arg) \o "\n")
      [] f = "pair?" -> NOk(bool(is_list(arg)))
      [] f = "symbol?" -> NOk(bool(arg.tag = "Symbol"))
      [] f = "string?" -> NOk(bool(arg.tag = "String"))
      [] f = "string-length" ->
            IF arg.tag = "String" THEN NOk(integer(Len(arg.s))) ELSE NErr(ErrExpectedString)
      [] f = "car" ->
            IF arg.tag = "Pair" \/ is_nil(arg) THEN NOk(car(arg)) ELSE NErr("Tried to get car")
      [] f = "cdr" ->
            IF arg.tag = "Pair" \/ is_nil(arg) THEN NOk(cdr(arg)) ELSE NErr("Tried to get cdr")

UnaryBuiltin(f, arg) ==
    CASE f = "into-pretty-string" -> NOk(String(pretty_print(arg, 0)))
      [] f = "into-string" -> NOk(String(fmt_debug(arg)))
      [] f = "print" -> NOut(String(format_for_print(arg)), format_for_print(arg))
      [] f = "println" -> NOut(String(format_for_print(arg)), format_for_print(arg) \o "\n")
      [] f = "pair?" -> NOk(bool(is_list(arg)))
      [] f = "symbol?" -> NOk(bool(arg.tag = "Symbol"))
      [] f = "string?" -> NOk(bool(arg.tag = "String"))
      [] f = "string-length" ->
            IF arg.tag = "String" THEN NOk(integer(Len(arg.s))) ELSE NErr(ErrExpectedString)
      [] f = "car" -> NOk(car(arg))
      [] f = "cdr" -> NOk(cdr(arg))

\* BinaryBuiltin whose cons refuses a second argument that is not a list
BinaryBuiltin_cons_onto_lists(f, arg1, arg2) ==
    CASE f = "cons" ->
            IF is_proper_list(arg2) THEN NOk(Pair(arg1, arg2))
            ELSE NErr("Builtin cons expected a list")
      [] f = "=" -> NOk(bool(atom_eq(arg1, arg2)))
      [] OTHER ->
            IF arg1.tag # "Number" \/ arg2.tag # "Number" THEN NErr(ErrExpectedNumber)
            ELSE NOk(NumericOp(f, arg1, arg2))

BinaryBuiltin(f, arg1, arg2) ==
    CASE f = "cons" -> NOk(Pair(arg1, arg2))
      [] f = "=" -> NOk(bool(atom_eq(arg1, arg2)))
      [] OTHER ->
            IF arg1.tag # "Number" \/ arg2.tag # "Number" THEN NErr(ErrExpectedNumber)
            ELSE NOk(NumericOp(f, arg1, arg2))

CallNative(f, args) ==
    IF f \in UnaryBuiltins
    THEN IF unary_arity_ok(args) THEN UnaryBuiltin(f, car(args)) ELSE NErr(ErrOneArgument)
    ELSE IF binary_arity_ok(args) THEN BinaryBuiltin(f, car(args), car(cdr(args)))
         ELSE NErr(ErrTwoArguments)

\* Env::default (env.rs 17-350): the frame of builtins and, over it, an empty frame
RootBindings ==
    [k \in Builtins \cup {"nil", "t", "define", "defmacro", "lambda", "if", "quote", "apply"} |->
        IF k \in Builtins THEN NativeFunc(k) ELSE symbol(k)]

EnvDefault == EnvNew(<<RootBindings>>)

(***************************************************************************)
(* Errors: the source builds them with eyre!; each is named here by the    *)
(* fixed part of its message.                                              *)
(***************************************************************************)
ErrUnbound == "Symbol is not bound to any value"
ErrMacroEvaluated == "Attempt to old_evaluate macro"
ErrImproper == "Attempted to old_evaluate improper list"
ErrNotFunction == "Expected a function as first element of old_evaluated list"
ErrSymbolNotForm == "Expected function, builtin function or special form, but got a symbol"
ErrTooFew == "Too few arguments"
ErrTooMany == "Too many arguments"
ErrApplyArity == "Special form apply expected exactly two arguments"
ErrApplyList == "Expected second argument to apply to be a proper list"
ErrIfArity == "Special form if takes exactly 3 arguments"
ErrLambdaForm == "LAMBDA has the form (lambda (arg ...) (body) ...)"
ErrDefmacroForm == "DEFMACRO has the form (DEFMACRO (name arg ...) body ...)"
ErrDefmacroName == "Expected name to be a symbol"
ErrDefineForm == "DEFINE has either the form (DEFINE name value) or (DEFINE (name arg ...) body ...)"
ErrDefineName == "Found define form (DEFINE (name arg ...) body ...), but name was not a symbol"
ErrDefineSymbol == "Expected a symbol as first argument to define"
ErrQuoteArity == "QUOTE takes exactly one argument"
ErrArgNames == "Expected all argument names to be symbols"
ErrBody == "Expected body to be a proper list"
ErrExpectedSymbol == "Expected a symbol"
\* not an error of the source: the host stack is exhausted (spec section 5)
ErrStack == "host stack exhausted"

(***************************************************************************)
(* The result of an evaluation: Result<Rc<Atom>> together with the state   *)
(* the call leaves in its `env: &mut Env` argument, and the log of what    *)
(* happened: one Ev entry per call of old_eval, in call order, and one     *)
(* Out entry per write to standard output.                                 *)
(***************************************************************************)
ROk(v, e, lg) == [ok |-> TRUE, val |-> v, err |-> "", env |-> e, log |-> lg]
RErr(m, e, lg) == [ok |-> FALSE, val |-> nil, err |-> m, env |-> e, log |-> lg]
Ev(expr) == [k |-> "eval", e |-> expr]
Out(str) == [k |-> "out", e |-> String(str)]
Pre(lg, r) == [r EXCEPT !.log = lg \o @]

\* atom.rs 311-336: the loop over the argument names
RECURSIVE arg_names_valid(_)
arg_names_valid(p) ==
    IF is_nil(p) THEN TRUE
    ELSE IF p.tag = "Symbol" THEN TRUE
    ELSE IF p.tag = "Pair" THEN (IF p.car.tag # "Symbol" THEN FALSE ELSE arg_names_valid(p.cdr))
    ELSE FALSE

\* validate_closure_form without the loop over the argument names
validate_closure_form_unchecked(e, args, body) ==
    IF is_proper_list(body) THEN [ok |-> TRUE, err |-> ""]
    ELSE [ok |-> FALSE, err |-> ErrBody]

validate_closure_form(e, args, body) ==
    IF is_proper_list(body)
    THEN (IF arg_names_valid(args) THEN [ok |-> TRUE, err |-> ""]
          ELSE [ok |-> FALSE, err |-> ErrArgNames])
    ELSE [ok |-> FALSE, err |-> ErrBody]

\* atom.rs 351-366, on a closure
closure_add_env_binding(atom, name, value) ==
    Closure(EnvSet(atom.env, name, value), atom.args, atom.body)

\* eval.rs 326-338
RECURSIVE quote_elements_in_list(_)
quote_elements_in_list(x) ==
    Pair(Pair(symbol("quote"), Pair(car(x), symbol("nil"))),
         IF is_nil(cdr(x)) THEN cdr(x) ELSE quote_elements_in_list(cdr(x)))

\* old_eval_special_form_quote that ignores operands after the first
old_eval_special_form_quote_first(args, e) ==
    IF is_nil(args) THEN RErr(ErrQuoteArity, e, <<>>)
    ELSE ROk(car(args), e, <<>>)

\* eval.rs 442-449
old_eval_special_form_quote(args, e) ==
    IF is_nil(args) \/ ~is_nil(cdr(args)) THEN RErr(ErrQuoteArity, e, <<>>)
    ELSE ROk(car(args), e, <<>>)

\* eval.rs 363-375 and Atom::closure (atom.rs 342-345)
old_eval_special_form_lambda(args, e) ==
    IF is_nil(args) \/ is_nil(cdr(args)) THEN RErr(ErrLambdaForm, e, <<>>)
    ELSE LET v == validate_closure_form(e, car(args), cdr(args))
         IN  IF ~v.ok THEN RErr(v.err, e, <<>>)
             ELSE ROk(Closure(e, car(args), cdr(args)), e, <<>>)

\* eval.rs 377-396
old_eval_special_form_defmacro(args, e) ==
    IF is_nil(args) \/ is_nil(cdr(args)) \/ args.tag # "Pair"
    THEN RErr(ErrDefmacroForm, e, <<>>)
    ELSE LET name == car(car(args))
         IN  IF name.tag = "Symbol"
             THEN LET v == validate_closure_form(e, cdr(car(args)), cdr(args))
                  IN  IF ~v.ok THEN RErr(v.err, e, <<>>)
                      ELSE ROk(name,
                               EnvSet(e, name.name, Macro(e, cdr(car(args)), cdr(args))),
                               <<>>)
             ELSE RErr(ErrDefmacroName, e, <<>>)

(***************************************************************************)
(* The evaluator (eval.rs 72-449).  d is the depth of nested evaluations   *)
(* still allowed.                                                          *)
(***************************************************************************)
RECURSIVE old_eval(_, _, _), old_eval_elements_in_list(_, _, _),
          list_old_evaluation(_, _, _, _, _), closure_bind(_, _, _, _, _),
          body_loop(_, _, _, _), old_eval_closure(_, _, _, _, _, _),
          macro_body_loop(_, _, _, _), old_eval_macro(_, _, _, _, _, _),
          try_old_evaluate_special_form(_, _, _, _),
          old_eval_special_form_apply(_, _, _), old_eval_special_form_if(_, _, _),
          old_eval_special_form_define(_, _, _)

\* eval.rs 74-84
old_eval(expr, e, d) ==
    IF d = 0 THEN RErr(ErrStack, e, <<Ev(expr)>>)
    ELSE CASE expr.tag \in {"Number", "NativeFunc", "Closure", "String"} ->
                ROk(expr, e, <<Ev(expr)>>)
           [] expr.tag = "Symbol" ->
                LET g == EnvGet(e, expr.name)
                IN  IF g.ok THEN ROk(g.val, e, <<Ev(expr)>>)
                    ELSE RErr(ErrUnbound, e, <<Ev(expr)>>)
           [] expr.tag = "Macro" -> RErr(ErrMacroEvaluated, e, <<Ev(expr)>>)
           [] expr.tag = "Pair" ->
                Pre(<<Ev(expr)>>, list_old_evaluation(expr.car, expr.cdr, expr, e, d - 1))

\* eval.rs 87-96; old_eval_args (eval.rs 221-230) is the same function
old_eval_elements_in_list(x, e, d) ==
    LET a == old_eval(car(x), e, d)
    IN  IF ~a.ok THEN a
        ELSE IF is_nil(cdr(x)) THEN ROk(Pair(a.val, cdr(x)), a.env, a.log)
        ELSE LET r == old_eval_elements_in_list(cdr(x), a.env, d)
             IN  IF ~r.ok THEN Pre(a.log, r)
                 ELSE ROk(Pair(a.val, r.val), r.env, a.log \o r.log)

\* eval.rs 268-303
try_old_evaluate_special_form(sym, args, e, d) ==
    CASE sym = "quote" -> old_eval_special_form_quote(args, e)
      [] sym = "define" -> old_eval_special_form_define(args, e, d)
      [] sym = "defmacro" -> old_eval_special_form_defmacro(args, e)
      [] sym = "lambda" -> old_eval_special_form_lambda(args, e)
      [] sym = "if" -> old_eval_special_form_if(args, e, d)
      [] sym = "apply" -> old_eval_special_form_apply(args, e, d)
      [] OTHER -> RErr(ErrSymbolNotForm, e, <<>>)

\* list_old_evaluation that recognises a special form by the head as written,
\* without looking it up
list_old_evaluation_by_name(car_, cdr_, expr, e, d) ==
    IF ~is_proper_list(expr) THEN RErr(ErrImproper, e, <<>>)
    ELSE IF car_.tag = "Symbol"
            /\ car_.name \in {"quote", "define", "defmacro", "lambda", "if", "apply"}
    THEN try_old_evaluate_special_form(car_.name, cdr_, e, d)
    ELSE LET op == old_eval(car_, e, d)
         IN  IF ~op.ok THEN op
             ELSE Pre(op.log,
                  CASE op.val.tag = "Symbol" ->
                         try_old_evaluate_special_form(op.val.name, cdr_, op.env, d)
                    [] op.val.tag = "NativeFunc" ->
                         LET a == old_eval_elements_in_list(cdr_, op.env, d)
                         IN  IF ~a.ok THEN a
                             ELSE LET n == CallNative(op.val.f, a.val)
                                  IN  [ok |-> n.ok, val |-> n.val, err |-> n.err, env |-> a.env,
                                       log |-> a.log \o [i \in 1..Len(n.out) |-> Out(n.out[i])]]
                    [] op.val.tag = "Closure" ->
                         old_eval_closure(op.val.env, op.env, op.val.args, cdr_, op.val.body, d)
                    [] op.val.tag = "Macro" ->
                         old_eval_macro(op.val.env, op.env, op.val.args, cdr_, op.val.body, d)
                    [] OTHER -> RErr(ErrNotFunction, op.env, <<>>))

\* list_old_evaluation that evaluates the head before it looks at the shape of
\* the list
list_old_evaluation_head_first(car_, cdr_, expr, e, d) ==
    LET op == old_eval(car_, e, d)
         IN  IF ~op.ok THEN op
             ELSE Pre(op.log,
                  CASE ~is_proper_list(expr) -> RErr(ErrImproper, op.env, <<>>)
                    [] op.val.tag = "Symbol" ->
                         try_old_evaluate_special_form(op.val.name, cdr_, op.env, d)
                    [] op.val.tag = "NativeFunc" ->
                         LET a == old_eval_elements_in_list(cdr_, op.env, d)
                         IN  IF ~a.ok THEN a
                             ELSE LET n == CallNative(op.val.f, a.val)
                                  IN  [ok |-> n.ok, val |-> n.val, err |-> n.err, env |-> a.env,
                                       log |-> a.log \o [i \in 1..Len(n.out) |-> Out(n.out[i])]]
                    [] op.val.tag = "Closure" ->
                         old_eval_closure(op.val.env, op.env, op.val.args, cdr_, op.val.body, d)
                    [] op.val.tag = "Macro" ->
                         old_eval_macro(op.val.env, op.env, op.val.args, cdr_, op.val.body, d)
                    [] OTHER -> RErr(ErrNotFunction, op.env, <<>>))

\* eval.rs 98-136
list_old_evaluation(car_, cdr_, expr, e, d) ==
    IF ~is_proper_list(expr) THEN RErr(ErrImproper, e, <<>>)
    ELSE LET op == old_eval(car_, e, d)
         IN  IF ~op.ok THEN op
             ELSE Pre(op.log,
                  CASE op.val.tag = "Symbol" ->
                         try_old_evaluate_special_form(op.val.name, cdr_, op.env, d)
                    [] op.val.tag = "NativeFunc" ->
                         LET a == old_eval_elements_in_list(cdr_, op.env, d)
                         IN  IF ~a.ok THEN a
                             ELSE LET n == CallNative(op.val.f, a.val)
                                  IN  [ok |-> n.ok, val |-> n.val, err |-> n.err, env |-> a.env,
                                       log |-> a.log \o [i \in 1..Len(n.out) |-> Out(n.out[i])]]
                    [] op.val.tag = "Closure" ->
                         old_eval_closure(op.val.env, op.env, op.val.args, cdr_, op.val.body, d)
                    [] op.val.tag = "Macro" ->
                         old_eval_macro(op.val.env, op.env, op.val.args, cdr_, op.val.body, d)
                    [] OTHER -> RErr(ErrNotFunction, op.env, <<>>))

\* eval.rs 208-245: the loop that binds the formals of a closure.  Gives the
\* call's frame, the caller's environment after the operands were evaluated in
\* it, and the operands left over.
closure_bind(arg_names, args_working, func_env, e, d) ==
    IF is_nil(arg_names)
    THEN [ok |-> TRUE, err |-> "", func_env |-> func_env, env |-> e,
          rest |-> args_working, log |-> <<>>]
    ELSE IF is_nil(args_working)
    THEN [ok |-> FALSE, err |-> ErrTooFew, func_env |-> func_env, env |-> e,
          rest |-> args_working, log |-> <<>>]
    ELSE IF arg_names.tag = "Symbol"
    THEN LET a == old_eval_elements_in_list(args_working, e, d)
         IN  IF ~a.ok
             THEN [ok |-> FALSE, err |-> a.err, func_env |-> func_env, env |-> a.env,
                   rest |-> args_working, log |-> a.log]
             ELSE [ok |-> TRUE, err |-> "", func_env |-> EnvSet(func_env, arg_names.name, a.val),
                   env |-> a.env, rest |-> nil, log |-> a.log]
    ELSE LET v == old_eval(car(args_working), e, d)
         IN  IF ~v.ok
             THEN [ok |-> FALSE, err |-> v.err, func_env |-> func_env, env |-> v.env,
                   rest |-> args_working, log |-> v.log]
             ELSE IF car(arg_names).tag # "Symbol"
             THEN [ok |-> FALSE, err |-> ErrExpectedSymbol, func_env |-> func_env,
                   env |-> v.env, rest |-> args_working, log |-> v.log]
             ELSE Pre(v.log,
                      closure_bind(cdr(arg_names), cdr(args_working),
                                   EnvSet(func_env, car(arg_names).name, v.val), v.env, d))

\* body_loop that evaluates every body expression in the environment the
\* call began with, without the bindings the earlier ones made
body_loop_from_start(body_working, func_env, result, d) ==
    IF is_nil(body_working) THEN ROk(result, func_env, <<>>)
    ELSE LET r == old_eval(car(body_working), func_env, d)
         IN  IF ~r.ok THEN r
             ELSE Pre(r.log, body_loop(cdr(body_working), func_env, r.val, d))

\* eval.rs 253-264: the body of a closure, in the call's environment
body_loop(body_working, func_env, result, d) ==
    IF is_nil(body_working) THEN ROk(result, func_env, <<>>)
    ELSE LET r == old_eval(car(body_working), func_env, d)
         IN  IF ~r.ok THEN r
             ELSE Pre(r.log, body_loop(cdr(body_working), r.env, r.val, d))

\* old_eval_closure without the test of eval.rs 246-251: operands left over
\* after the formals are bound are ignored
old_eval_closure_ignoring_extra(function_env, e, original_arg_names, args, body, d) ==
    LET func_env == add_furthest_parent(EnvNew(function_env), e)
        b == closure_bind(original_arg_names, args, func_env, e, d)
    IN  IF ~b.ok THEN RErr(b.err, b.env, b.log)
        ELSE LET r == body_loop(body, b.func_env, nil, d)
             IN  [ok |-> r.ok, val |-> r.val, err |-> r.err, env |-> b.env,
                  log |-> b.log \o r.log]

\* old_eval_closure that binds the formals and evaluates the body in the
\* caller's environment itself and not in a new frame
old_eval_closure_in_caller_env(function_env, e, original_arg_names, args, body, d) ==
    LET b == closure_bind(original_arg_names, args, e, e, d)
    IN  IF ~b.ok THEN RErr(b.err, b.env, b.log)
        ELSE IF ~is_nil(b.rest) THEN RErr(ErrTooMany, b.env, b.log)
        ELSE LET r == body_loop(body, b.func_env, nil, d)
             IN  [ok |-> r.ok, val |-> r.val, err |-> r.err, env |-> r.env,
                  log |-> b.log \o r.log]

\* eval.rs 197-266
old_eval_closure(function_env, e, original_arg_names, args, body, d) ==
    LET func_env == add_furthest_parent(EnvNew(function_env), e)
        b == closure_bind(original_arg_names, args, func_env, e, d)
    IN  IF ~b.ok THEN RErr(b.err, b.env, b.log)
        ELSE IF ~is_nil(b.rest) THEN RErr(ErrTooMany, b.env, b.log)
        ELSE LET r == body_loop(body, b.func_env, nil, d)
             IN  [ok |-> r.ok, val |-> r.val, err |-> r.err, env |-> b.env,
                  log |-> b.log \o r.log]

\* eval.rs 149-173: the loop that binds the formals of a macro to the operands
\* as they are written
RECURSIVE macro_bind(_, _, _)
macro_bind(arg_names, args_working, func_env) ==
    IF is_nil(arg_names)
    THEN [ok |-> TRUE, err |-> "", func_env |-> func_env, rest |-> args_working]
    ELSE IF is_nil(args_working)
    THEN [ok |-> FALSE, err |-> ErrTooFew, func_env |-> func_env, rest |-> args_working]
    ELSE IF arg_names.tag = "Symbol"
    THEN [ok |-> TRUE, err |-> "", func_env |-> EnvSet(func_env, arg_names.name, args_working),
          rest |-> nil]
    ELSE IF car(arg_names).tag # "Symbol"
    THEN [ok |-> FALSE, err |-> ErrExpectedSymbol, func_env |-> func_env, rest |-> args_working]
    ELSE macro_bind(cdr(arg_names), cdr(args_working),
                    EnvSet(func_env, car(arg_names).name, car(args_working)))

\* eval.rs 181-193: every body expression is evaluated and its value is
\* evaluated again, both in the call's environment
macro_body_loop(body_working, func_env, result, d) ==
    IF is_nil(body_working) THEN ROk(result, func_env, <<>>)
    ELSE LET r1 == old_eval(car(body_working), func_env, d)
         IN  IF ~r1.ok THEN r1
             ELSE LET r2 == old_eval(r1.val, r1.env, d)
                  IN  IF ~r2.ok THEN Pre(r1.log, r2)
                      ELSE Pre(r1.log \o r2.log,
                               macro_body_loop(cdr(body_working), r2.env, r2.val, d))

\* old_eval_macro that binds the formals and evaluates the body in the
\* caller's environment itself and not in a new frame
old_eval_macro_in_caller_env(function_env, e, original_arg_names, args, body, d) ==
    LET b == macro_bind(original_arg_names, args, e)
    IN  IF ~b.ok THEN RErr(b.err, e, <<>>)
        ELSE IF ~is_nil(b.rest) THEN RErr(ErrTooMany, e, <<>>)
        ELSE macro_body_loop(body, b.func_env, nil, d)

\* eval.rs 138-195
old_eval_macro(function_env, e, original_arg_names, args, body, d) ==
    LET func_env == add_furthest_parent(EnvNew(function_env), e)
        b == macro_bind(original_arg_names, args, func_env)
    IN  IF ~b.ok THEN RErr(b.err, e, <<>>)
        ELSE IF ~is_nil(b.rest) THEN RErr(ErrTooMany, e, <<>>)
        ELSE LET r == macro_body_loop(body, b.func_env, nil, d)
             IN  [ok |-> r.ok, val |-> r.val, err |-> r.err, env |-> e, log |-> r.log]

\* eval.rs 305-324
old_eval_special_form_apply(args, e, d) ==
    IF is_nil(args) \/ is_nil(cdr(args)) \/ ~is_nil(cdr(cdr(args)))
    THEN RErr(ErrApplyArity, e, <<>>)
    ELSE LET func == old_eval(car(args), e, d)
         IN  IF ~func.ok THEN func
             ELSE LET lst == old_eval(car(cdr(args)), func.env, d)
                  IN  IF ~lst.ok THEN Pre(func.log, lst)
                      ELSE IF ~is_proper_list(lst.val)
                      THEN RErr(ErrApplyList, lst.env, func.log \o lst.log)
                      ELSE Pre(func.log \o lst.log,
                               old_eval(Pair(func.val, quote_elements_in_list(lst.val)),
                                        lst.env, d))

\* old_eval_special_form_if that evaluates both branches before it chooses
old_eval_special_form_if_eager(args, e, d) ==
    IF is_nil(args) \/ is_nil(cdr(args)) \/ is_nil(cdr(cdr(args)))
       \/ ~is_nil(cdr(cdr(cdr(args))))
    THEN RErr(ErrIfArity, e, <<>>)
    ELSE LET result == old_eval(car(args), e, d)
         IN  IF ~result.ok THEN result
             ELSE LET r1 == old_eval(car(cdr(args)), result.env, d)
                  IN  IF ~r1.ok THEN Pre(result.log, r1)
                      ELSE LET r2 == old_eval(car(cdr(cdr(args))), r1.env, d)
                           IN  IF ~r2.ok THEN Pre(result.log \o r1.log, r2)
                               ELSE ROk(IF as_bool(result.val) THEN r1.val ELSE r2.val,
                                        r2.env, result.log \o r1.log \o r2.log)

\* eval.rs 340-361
old_eval_special_form_if(args, e, d) ==
    IF is_nil(args) \/ is_nil(cdr(args)) \/ is_nil(cdr(cdr(args)))
       \/ ~is_nil(cdr(cdr(cdr(args))))
    THEN RErr(ErrIfArity, e, <<>>)
    ELSE LET result == old_eval(car(args), e, d)
         IN  IF ~result.ok THEN result
             ELSE IF as_bool(result.val)
             THEN Pre(result.log, old_eval(car(cdr(args)), result.env, d))
             ELSE Pre(result.log, old_eval(car(cdr(cdr(args))), result.env, d))

\* old_eval_special_form_define whose (define name value) binds the name to nil
\* when the value fails
old_eval_special_form_define_binding_failed(args, e, d) ==
    IF is_nil(args) \/ is_nil(cdr(args)) THEN RErr(ErrDefineForm, e, <<>>)
    ELSE LET sym == car(args)
         IN  CASE sym.tag = "Pair" ->
                    LET v == validate_closure_form(e, sym.cdr, cdr(args))
                        result == Closure(e, sym.cdr, cdr(args))
                    IN  IF ~v.ok THEN RErr(v.err, e, <<>>)
                        ELSE IF sym.car.tag = "Symbol"
                        THEN ROk(sym.car,
                                 EnvSet(e, sym.car.name,
                                        closure_add_env_binding(result, sym.car.name, result)),
                                 <<>>)
                        ELSE RErr(ErrDefineName, e, <<>>)
               [] sym.tag = "Symbol" ->
                    LET value == old_eval(car(cdr(args)), e, d)
                    IN  IF ~value.ok
                        THEN RErr(value.err, EnvSet(value.env, sym.name, nil), value.log)
                        ELSE ROk(sym, EnvSet(value.env, sym.name, value.val), value.log)
               [] OTHER -> RErr(ErrDefineSymbol, e, <<>>)

\* old_eval_special_form_define whose (define name value) keeps the binding a
\* name already has in the current frame
old_eval_special_form_define_once(args, e, d) ==
    IF is_nil(args) \/ is_nil(cdr(args)) THEN RErr(ErrDefineForm, e, <<>>)
    ELSE LET sym == car(args)
         IN  CASE sym.tag = "Pair" ->
                    LET v == validate_closure_form(e, sym.cdr, cdr(args))
                        result == Closure(e, sym.cdr, cdr(args))
                    IN  IF ~v.ok THEN RErr(v.err, e, <<>>)
                        ELSE IF sym.car.tag = "Symbol"
                        THEN ROk(sym.car,
                                 EnvSet(e, sym.car.name,
                                        closure_add_env_binding(result, sym.car.name, result)),
                                 <<>>)
                        ELSE RErr(ErrDefineName, e, <<>>)
               [] sym.tag = "Symbol" ->
                    LET value == old_eval(car(cdr(args)), e, d)
                    IN  IF ~value.ok THEN value
                        ELSE IF sym.name \in DOMAIN value.env[1] THEN ROk(sym, value.env, value.log)
                        ELSE ROk(sym, EnvSet(value.env, sym.name, value.val), value.log)
               [] OTHER -> RErr(ErrDefineSymbol, e, <<>>)

\* eval.rs 398-440
old_eval_special_form_define(args, e, d) ==
    IF is_nil(args) \/ is_nil(cdr(args)) THEN RErr(ErrDefineForm, e, <<>>)
    ELSE LET sym == car(args)
         IN  CASE sym.tag = "Pair" ->
                    LET v == validate_closure_form(e, sym.cdr, cdr(args))
                        result == Closure(e, sym.cdr, cdr(args))
                    IN  IF ~v.ok THEN RErr(v.err, e, <<>>)
                        ELSE IF sym.car.tag = "Symbol"
                        THEN ROk(sym.car,
                                 EnvSet(e, sym.car.name,
                                        closure_add_env_binding(result, sym.car.name, result)),
                                 <<>>)
                        ELSE RErr(ErrDefineName, e, <<>>)
               [] sym.tag = "Symbol" ->
                    LET value == old_eval(car(cdr(args)), e, d)
                    IN  IF ~value.ok THEN value
                        ELSE ROk(sym, EnvSet(value.env, sym.name, value.val), value.log)
               [] OTHER -> RErr(ErrDefineSymbol, e, <<>>)

(***************************************************************************)
(* Expressions as the parser builds them (parsing.rs 92-166).              *)
(***************************************************************************)
\* parsing.rs 160-166
RECURSIVE create_improper_list(_, _)
create_improper_list(atoms, lst) ==
    IF atoms = <<>> THEN lst
    ELSE Pair(Head(atoms), create_improper_list(Tail(atoms), lst))

\* parsing.rs 152-158
create_list(x) == create_improper_list(x, nil)

\* parsing.rs 129-132: 'x
quoted(a) == Pair(symbol("quote"), Pair(a, nil))

(***************************************************************************)
(* The session: run_code / run_has_error (tests/mod.rs 36-74) evaluate the *)
(* expressions of a program one after the other in one environment that    *)
(* starts as Env::default().  run_code goes on after a value and           *)
(* run_has_error after an error; the session here goes on after both, with *)
(* whatever the failed evaluation left in the environment.  `last` records *)
(* the expression evaluated last, the environment it was evaluated in and  *)
(* the outcome.                                                            *)
(***************************************************************************)
Init ==
    /\ env = EnvDefault
    /\ last = [expr |-> nil, before |-> EnvDefault, ok |-> TRUE, val |-> nil,
               err |-> "", log |-> <<>>]
    /\ steps = 0

\* one turn of the loop over the parsed expressions
Repl(expr) ==
    /\ steps < MaxSteps
    /\ LET r == old_eval(expr, env, MaxDepth)
       IN  /\ env' = r.env
           /\ last' = [expr |-> expr, before |-> env, ok |-> r.ok, val |-> r.val,
                       err |-> r.err, log |-> r.log]
    /\ steps' = steps + 1

(***************************************************************************)
(* Sessions that apply closures.                                           *)
(***************************************************************************)
\* number of positional formals and of operands of the calls that are tried
MaxFormals == 2
MaxOperands == 3

FormalNames == <<"x", "y", "z", "w">>

\* the list of the first n formal names, ending in tail
Formals(n, tail) == create_improper_list([i \in 1..n |-> symbol(FormalNames[i])], tail)

\* (cons x (cons y tail)): the expression that lists the first n formals
RECURSIVE ListOfFormals(_, _, _)
ListOfFormals(i, n, tail) ==
    IF i > n THEN tail
    ELSE create_list(<<symbol("cons"), symbol(FormalNames[i]), ListOfFormals(i + 1, n, tail)>>)

\* (lambda (x y) (cons x (cons y nil)))
FixedLambda(n) ==
    create_list(<<symbol("lambda"), Formals(n, nil), ListOfFormals(1, n, nil)>>)

\* (lambda (x y . r) (cons x (cons y r))); with n = 0, (lambda r r)
RestLambda(n) ==
    create_list(<<symbol("lambda"), Formals(n, symbol("r")), ListOfFormals(1, n, symbol("r"))>>)

\* m operands: the i-th is the number i, but the j-th (when j > 0) is the name a,
\* which the session may or may not have defined
OperandSeq(m, j) == [i \in 1..m |-> IF i = j THEN symbol("a") ELSE integer(i)]

Call(f, ops) == Pair(f, create_list(ops))

Define(name, value) == create_list(<<symbol("define"), symbol(name), value>>)

DefineValue == \E v \in {integer(10), integer(20)} : Repl(Define("a", v))

ApplyFixed ==
    \E n \in 0..MaxFormals, m \in 0..MaxOperands :
        \E j \in 0..m : Repl(Call(FixedLambda(n), OperandSeq(m, j)))

ApplyRest ==
    \E n \in 0..MaxFormals, m \in 0..MaxOperands :
        \E j \in 0..m : Repl(Call(RestLambda(n), OperandSeq(m, j)))

Next == DefineValue \/ ApplyFixed \/ ApplyRest

Spec == Init /\ [][Next]_vars

\* what an operand of OperandSeq evaluates to in the environment e
OperandOk(op, e) == op.tag = "Number" \/ EnvGet(e, op.name).ok
OperandValue(op, e) == IF op.tag = "Number" THEN op ELSE EnvGet(e, op.name).val

Min(a, b) == IF a < b THEN a ELSE b

\* C1 (as stated): a closure with n fixed formals applied to m operands fails with
\* a too-many-arguments error when m > n, with a too-few-arguments error when
\* m < n, and with m = n returns what its body gives with the i-th formal bound
\* to the value of the i-th operand in the caller's environment.
C1_AsStated ==
    \A n \in 0..MaxFormals, m \in 0..MaxOperands :
        \A j \in 0..m :
            last.expr = Call(FixedLambda(n), OperandSeq(m, j)) =>
                LET ops == OperandSeq(m, j)
                IN  /\ m > n => (~last.ok /\ last.err = ErrTooMany)
                    /\ m < n => (~last.ok /\ last.err = ErrTooFew)
                    /\ (m = n /\ \A i \in 1..m : OperandOk(ops[i], last.before)) =>
                          /\ last.ok
                          /\ last.val = create_list([i \in 1..m |-> OperandValue(ops[i], last.before)])

\* C1 (amended): the operands are evaluated left to right, as far as there are
\* formals, before the arity is judged.  When one of the first min(m, n) operands
\* fails, the call fails with that operand's error; otherwise the call fails with
\* too-many-arguments for m > n, with too-few-arguments for m < n, and for m = n
\* the body sees the i-th formal bound to the value of the i-th operand.
C1_ClosureArity ==
    \A n \in 0..MaxFormals, m \in 0..MaxOperands :
        \A j \in 0..m :
            last.expr = Call(FixedLambda(n), OperandSeq(m, j)) =>
                LET ops == OperandSeq(m, j)
                    evaluated == 1..Min(m, n)
                IN  IF \E i \in evaluated : ~OperandOk(ops[i], last.before)
                    THEN ~last.ok /\ last.err = ErrUnbound
                    ELSE /\ m > n => (~last.ok /\ last.err = ErrTooMany)
                         /\ m < n => (~last.ok /\ last.err = ErrTooFew)
                         /\ m = n =>
                              /\ last.ok
                              /\ last.val = create_list([i \in 1..m |-> OperandValue(ops[i], last.before)])
                         /\ env = last.before

\* a call of a two-formal closure whose second operand is the defined name a has returned
C1_Witness ==
    /\ last.expr = Call(FixedLambda(2), OperandSeq(2, 2))
    /\ last.ok
    /\ last.val = create_list(<<integer(1), integer(20)>>)

\* C2 (as stated): a closure whose formals end in a rest symbol binds it to the
\* list of the values of the remaining operands, for every number k >= 0 of
\* them; with k = 0 the rest symbol is nil and the call succeeds.
C2_RestCollects ==
    \A n \in 0..MaxFormals, m \in 0..MaxOperands :
        \A j \in 0..m :
            ( /\ last.expr = Call(RestLambda(n), OperandSeq(m, j))
              /\ m >= n
              /\ \A i \in 1..m : OperandOk(OperandSeq(m, j)[i], last.before) ) =>
                /\ last.ok
                /\ last.val = create_list([i \in 1..m |-> OperandValue(OperandSeq(m, j)[i], last.before)])

(***************************************************************************)
(* Calls of the primitives: every builtin of the root environment applied  *)
(* to 0..MaxPrimOperands number literals.                                  *)
(***************************************************************************)
MaxPrimOperands == 3

Literals(m) == [i \in 1..m |-> integer(i)]

Arity(f) == IF f \in UnaryBuiltins THEN 1 ELSE 2

CallPrimitive ==
    \E f \in Builtins, m \in 0..MaxPrimOperands : Repl(Call(symbol(f), Literals(m)))

NextPrimitive == CallPrimitive

SpecPrimitive == Init /\ [][NextPrimitive]_vars

\* C3 (as stated): a primitive called with a number of operands different from
\* its arity, zero operands included, ends in a bad-arity error and never
\* returns a result.
C3_StrictArity ==
    \A f \in Builtins, m \in 0..MaxPrimOperands :
        (last.expr = Call(symbol(f), Literals(m)) /\ m # Arity(f)) =>
            /\ ~last.ok
            /\ last.err \in {ErrOneArgument, ErrTwoArguments}

(***************************************************************************)
(* Sessions that use apply: a closure of n formals applied to a quoted     *)
(* list of k elements, or to something that is not a list.                 *)
(***************************************************************************)
MaxListLen == 3

Apply(f, args) == create_list(<<symbol("apply"), f, args>>)

\* what is not a proper list: a number, a pair with a number for tail
NotLists == {integer(5), Pair(integer(1), integer(2))}

ApplyList ==
    \E n \in 0..MaxFormals, k \in 0..MaxListLen :
        \E j \in 0..k : Repl(Apply(FixedLambda(n), quoted(create_list(OperandSeq(k, j)))))

ApplyNotList ==
    \E n \in 0..MaxFormals, v \in NotLists : Repl(Apply(FixedLambda(n), quoted(v)))

NextApply == DefineValue \/ ApplyList \/ ApplyNotList

SpecApply == Init /\ [][NextApply]_vars

\* C4 (as stated): apply fails when the value of its second operand is not a
\* proper list, and otherwise calls the function with exactly one argument per
\* element of the list, the elements taken as they are: a closure of n formals
\* applied to a list of k elements returns the list when k = n, fails with
\* too-many-arguments when k > n and with too-few-arguments when k < n, for
\* every k >= 0.
C4_ApplySpreads ==
    /\ \A n \in 0..MaxFormals, k \in 0..MaxListLen :
          \A j \in 0..k :
              last.expr = Apply(FixedLambda(n), quoted(create_list(OperandSeq(k, j)))) =>
                  /\ k = n => (last.ok /\ last.val = create_list(OperandSeq(k, j)))
                  /\ k > n => (~last.ok /\ last.err = ErrTooMany)
                  /\ k < n => (~last.ok /\ last.err = ErrTooFew)
    /\ \A n \in 0..MaxFormals, v \in NotLists :
          last.expr = Apply(FixedLambda(n), quoted(v)) => (~last.ok /\ last.err = ErrApplyList)

(***************************************************************************)
(* Sessions that define and call macros.                                   *)
(***************************************************************************)
\* (defmacro (name . formals) body...)
DefMacro(name, formals, body) ==
    Pair(symbol("defmacro"), Pair(Pair(symbol(name), formals), body))

\* the macro that a name is bound to in e: a Macro atom, or nil when there is none
MacroOf(e, name) ==
    LET b == EnvGet(e, name)
    IN  IF b.ok /\ b.val.tag = "Macro" THEN b.val ELSE nil

\* what the i-th Ev entry of a log evaluated, for counting evaluations
Evaluations(log, expr) == Cardinality({i \in 1..Len(log) : log[i] = Ev(expr)})

\* ---- the environment of the expansion ----
\* (defmacro (mx p) (quote a)): the expansion is the symbol a
DefineExpandsToA ==
    \E p \in {"a", "b"} :
        Repl(DefMacro("mx", create_list(<<symbol(p)>>), create_list(<<quoted(symbol("a"))>>)))

CallExpandsToA == \E v \in {7, 8} : Repl(Call(symbol("mx"), <<integer(v)>>))

NextMacroEnv == DefineValue \/ DefineExpandsToA \/ CallExpandsToA

SpecMacroEnv == Init /\ [][NextMacroEnv]_vars

\* C5 (as stated): the expansion of a macro is evaluated in the environment of
\* the macro call, so the symbol a in the expansion resolves to the caller's
\* binding of a, also when the macro has a formal named a.
C5_ExpansionInCallerEnv ==
    \A v \in {7, 8} :
        ( /\ last.expr = Call(symbol("mx"), <<integer(v)>>)
          /\ MacroOf(last.before, "mx") # nil
          /\ EnvGet(last.before, "a").ok ) =>
            /\ last.ok
            /\ last.val = EnvGet(last.before, "a").val

\* ---- macros with several body expressions ----
MaxBody == 3

\* k body expressions: the i-th is the number i, but the j-th (when j > 0) is
\* (quote a), whose value is the symbol a
BodySeq(k, j) == [i \in 1..k |-> IF i = j THEN quoted(symbol("a")) ELSE integer(i)]

\* (defmacro (ms) 1 (quote a) 3)
DefineSequence ==
    \E k \in 1..MaxBody :
        \E j \in 0..k : Repl(DefMacro("ms", nil, create_list(BodySeq(k, j))))

CallSequence == Repl(Call(symbol("ms"), <<>>))

NextMacroBody == DefineValue \/ DefineSequence \/ CallSequence

SpecMacroBody == Init /\ [][NextMacroBody]_vars

\* C6 (as stated): a macro with k >= 1 body expressions evaluates each of them
\* once and evaluates only the value of the last one a second time: when the
\* last body expression is a number the call returns that number, whatever the
\* values of the earlier ones, and each earlier body expression is evaluated
\* exactly once.
C6_OnlyExpansionEvaluated ==
    \A k \in 1..MaxBody :
        \A j \in 0..k :
            ( /\ last.expr = Call(symbol("ms"), <<>>)
              /\ MacroOf(last.before, "ms") # nil
              /\ MacroOf(last.before, "ms").body = create_list(BodySeq(k, j))
              /\ j # k ) =>
                /\ last.ok
                /\ last.val = integer(k)
                /\ \A i \in 1..(k - 1) : Evaluations(last.log, BodySeq(k, j)[i]) = 1

\* ---- macros that return their operands ----
\* (cons (quote quote) (cons <list of the formals> nil)): an expansion that
\* quotes what the formals are bound to
QuoteFormals(n, tail) ==
    create_list(<<symbol("cons"), quoted(symbol("quote")),
                  create_list(<<symbol("cons"), ListOfFormals(1, n, tail), nil>>)>>)

RestTails == {nil, symbol("r")}

DefineOperandMacro ==
    \E n \in 0..MaxFormals, tail \in RestTails :
        Repl(DefMacro("ml", Formals(n, tail), create_list(<<QuoteFormals(n, tail)>>)))

CallOperandMacro ==
    \E m \in 0..MaxOperands :
        \E j \in 0..m : Repl(Call(symbol("ml"), OperandSeq(m, j)))

NextMacroOperands == DefineValue \/ DefineOperandMacro \/ CallOperandMacro

SpecMacroOperands == Init /\ [][NextMacroOperands]_vars

\* C7 (as stated): a macro application binds each positional formal to the
\* operand expression as written and a rest symbol to the list of the remaining
\* operand expressions as written, and evaluates no operand: a macro that
\* quotes its formals returns the operand list as written, for n positional
\* formals and m = n operands, and with a rest symbol for every m >= n.
C7_OperandsAsWritten ==
    \A n \in 0..MaxFormals, tail \in RestTails, m \in 0..MaxOperands :
        \A j \in 0..m :
            ( /\ last.expr = Call(symbol("ml"), OperandSeq(m, j))
              /\ MacroOf(last.before, "ml") # nil
              /\ MacroOf(last.before, "ml").args = Formals(n, tail)
              /\ IF tail = nil THEN m = n ELSE m >= n ) =>
                /\ last.ok
                /\ last.val = create_list(OperandSeq(m, j))
                /\ \A i \in 1..m : Evaluations(last.log, OperandSeq(m, j)[i]) = 0

\* C7, every case but a rest symbol with no operand left: the formals are bound
\* to the operands as written and no operand is evaluated
C7_OperandsAsWrittenSomeRest ==
    \A n \in 0..MaxFormals, tail \in RestTails, m \in 0..MaxOperands :
        \A j \in 0..m :
            ( /\ last.expr = Call(symbol("ml"), OperandSeq(m, j))
              /\ MacroOf(last.before, "ml") # nil
              /\ MacroOf(last.before, "ml").args = Formals(n, tail)
              /\ IF tail = nil THEN m = n ELSE m > n ) =>
                /\ last.ok
                /\ last.val = create_list(OperandSeq(m, j))
                /\ \A i \in 1..m : Evaluations(last.log, OperandSeq(m, j)[i]) = 0

(***************************************************************************)
(* Sessions about scope: f is a closure of one formal x that was created   *)
(* inside a call binding c to 10, and whose body is a single name.         *)
(***************************************************************************)
ScopeNames == {"x", "c", "g", "u"}

\* (define f ((lambda (c) (lambda (x) name)) 10))
DefineF(name) ==
    Define("f", Call(create_list(<<symbol("lambda"), create_list(<<symbol("c")>>),
                                   create_list(<<symbol("lambda"), create_list(<<symbol("x")>>),
                                                 symbol(name)>>)>>),
                     <<integer(10)>>))

\* (f 20)
DirectCall == Call(symbol("f"), <<integer(20)>>)

\* ((lambda (g) (f 20)) 7): f is called from a frame that binds g
InnerCall ==
    Call(create_list(<<symbol("lambda"), create_list(<<symbol("g")>>), DirectCall>>),
         <<integer(7)>>)

DefineGlobal == \E name \in {"c", "g", "x"}, v \in {30, 40} : Repl(Define(name, integer(v)))

DefineClosure == \E name \in ScopeNames : Repl(DefineF(name))

CallClosure == Repl(DirectCall)

CallClosureFromFrame == Repl(InnerCall)

NextScope == DefineGlobal \/ DefineClosure \/ CallClosure \/ CallClosureFromFrame

SpecScope == Init /\ [][NextScope]_vars

\* the closure that f is bound to in e, or nil
ClosureOf(e, name) ==
    LET b == EnvGet(e, name)
    IN  IF b.ok /\ b.val.tag = "Closure" THEN b.val ELSE nil

\* the outcome of the call of clo from the environment caller, when the body of
\* clo is the name: the formal x, else the captured chain, else the caller's
\* chain, else an unbound-symbol error
ResolvedInOrder(clo, caller, name) ==
    IF name = "x" THEN last.ok /\ last.val = integer(20)
    ELSE IF EnvGet(clo.env, name).ok THEN last.ok /\ last.val = EnvGet(clo.env, name).val
    ELSE IF EnvGet(caller, name).ok THEN last.ok /\ last.val = EnvGet(caller, name).val
    ELSE ~last.ok /\ last.err = ErrUnbound

\* C8: during a closure call a name resolves in the call's frame, then in the
\* closure's captured chain, then in the caller's chain, and is an
\* unbound-symbol error when none of them binds it.
C8_ResolutionOrder ==
    \A name \in ScopeNames :
        LET clo == ClosureOf(last.before, "f")
        IN  (clo # nil /\ clo.body = create_list(<<symbol(name)>>)) =>
                /\ last.expr = DirectCall => ResolvedInOrder(clo, last.before, name)
                /\ last.expr = InnerCall =>
                      ResolvedInOrder(clo, <<[k \in {"g"} |-> integer(7)]>> \o last.before, name)

\* c is bound to 10 in the captured chain and to 30 by the caller: the call gave 10
C8_Witness ==
    /\ last.expr = DirectCall
    /\ ClosureOf(last.before, "f") # nil
    /\ ClosureOf(last.before, "f").body = create_list(<<symbol("c")>>)
    /\ EnvGet(last.before, "c").ok
    /\ EnvGet(last.before, "c").val = integer(30)
    /\ last.ok
    /\ last.val = integer(10)

(***************************************************************************)
(* Sessions about recursion: fact is defined with the function shape of    *)
(* define, possibly after an earlier definition of the same name.          *)
(***************************************************************************)
\* largest argument of fact; the call (fact k) nests 3 * k + 4 evaluations
MaxArg == 2

\* (if (= n 0) 1 (* n (fact (- n 1))))
FactBody ==
    create_list(<<symbol("if"),
                  create_list(<<symbol("="), symbol("n"), integer(0)>>),
                  integer(1),
                  create_list(<<symbol("*"), symbol("n"),
                                create_list(<<symbol("fact"),
                                              create_list(<<symbol("-"), symbol("n"),
                                                            integer(1)>>)>>)>>)>>)

\* (define (name . formals) body...)
DefineFunction(name, formals, body) ==
    Pair(symbol("define"), Pair(Pair(symbol(name), formals), body))

DefineFact == Repl(DefineFunction("fact", create_list(<<symbol("n")>>), create_list(<<FactBody>>)))

\* an earlier version of fact that does not recurse: (define (fact n) 0)
DefineEarlier ==
    \E v \in {0, 7} :
        Repl(DefineFunction("fact", create_list(<<symbol("n")>>), create_list(<<integer(v)>>)))

CallFact == \E k \in 0..MaxArg : Repl(Call(symbol("fact"), <<integer(k)>>))

NextRecursion == DefineFact \/ DefineEarlier \/ CallFact

SpecRecursion == Init /\ [][NextRecursion]_vars

RECURSIVE Factorial(_)
Factorial(k) == IF k = 0 THEN 1 ELSE k * Factorial(k - 1)

\* C9 (as stated): once fact is defined recursively with (define (fact n) ...),
\* a call (fact k) calls that definition at every depth of the recursion and
\* returns k!.
C9_SelfRecursion ==
    \A k \in 0..MaxArg :
        ( /\ last.expr = Call(symbol("fact"), <<integer(k)>>)
          /\ ClosureOf(last.before, "fact") # nil
          /\ ClosureOf(last.before, "fact").body = create_list(<<FactBody>>) ) =>
            /\ last.ok
            /\ last.val = integer(Factorial(k))

(***************************************************************************)
(* Sessions about (define name value).                                     *)
(***************************************************************************)
DefNames == {"a", "b"}

\* value expressions: numbers, the name b, the name u that nothing defines
DefineValues == {integer(1), integer(2), symbol("b"), symbol("u")}

\* ((lambda () (define a v1) (define a v2) a)): two defines of a in the frame
\* of one call, then the name
DefineTwice(v1, v2) ==
    Call(create_list(<<symbol("lambda"), nil, Define("a", integer(v1)),
                       Define("a", integer(v2)), symbol("a")>>), <<>>)

DefineName == \E name \in DefNames, value \in DefineValues : Repl(Define(name, value))

EvalName == \E name \in DefNames : Repl(symbol(name))

DefineInFrame == \E v1 \in 1..2, v2 \in 1..2 : Repl(DefineTwice(v1, v2))

NextDefine == DefineName \/ EvalName \/ DefineInFrame

SpecDefine == Init /\ [][NextDefine]_vars

\* C10: (define name value) evaluates value, binds name to the result in the
\* current frame, changes no other binding and returns the symbol name (and
\* binds nothing when value fails); evaluating a name gives what the current
\* environment binds it to and changes nothing; so after several defines of a
\* name in one environment the name evaluates to the value of the last one.
C10_DefineBinds ==
    /\ \A name \in DefNames, value \in DefineValues :
          last.expr = Define(name, value) =>
              IF OperandOk(value, last.before)
              THEN /\ last.ok
                   /\ last.val = symbol(name)
                   /\ name \in DOMAIN env[1]
                   /\ env[1][name] = OperandValue(value, last.before)
                   /\ Tail(env) = Tail(last.before)
                   /\ DOMAIN env[1] = DOMAIN last.before[1] \cup {name}
                   /\ \A other \in DOMAIN env[1] \ {name} : env[1][other] = last.before[1][other]
              ELSE /\ ~last.ok
                   /\ last.err = ErrUnbound
                   /\ env = last.before
    /\ \A name \in DefNames :
          last.expr = symbol(name) =>
              /\ env = last.before
              /\ IF name \in DOMAIN last.before[1]
                 THEN last.ok /\ last.val = last.before[1][name]
                 ELSE ~last.ok /\ last.err = ErrUnbound
    /\ \A v1 \in 1..2, v2 \in 1..2 :
          last.expr = DefineTwice(v1, v2) =>
              /\ last.ok
              /\ last.val = integer(v2)
              /\ env = last.before

\* a was defined as 1 and then as 2 in one frame, and the name a gave 2
C10_Witness ==
    /\ last.expr = DefineTwice(1, 2)
    /\ last.ok
    /\ last.val = integer(2)

(***************************************************************************)
(* Sessions about a define whose value fails.                              *)
(***************************************************************************)
\* (cons (define inner 1) u): defines inner, then fails on the unbound u
DefinesThenFails(inner) ==
    create_list(<<symbol("cons"), Define(inner, integer(1)), symbol("u")>>)

\* value expressions that fail and change nothing: an unbound name, a call of
\* an unbound function, a primitive with too many operands
PlainFailures ==
    {symbol("u"), create_list(<<symbol("abc")>>),
     create_list(<<symbol("car"), integer(1), integer(2)>>)}

\* the error of a value expression of PlainFailures
FailureOf(value) == IF value.tag = "Pair" /\ value.car = symbol("car") THEN ErrOneArgument ELSE ErrUnbound

DefinePlainFailure ==
    \E name \in DefNames, value \in PlainFailures : Repl(Define(name, value))

DefineAfterInnerDefine ==
    \E name \in DefNames, inner \in DefNames : Repl(Define(name, DefinesThenFails(inner)))

NextDefineFails == DefineName \/ EvalName \/ DefinePlainFailure \/ DefineAfterInnerDefine

SpecDefineFails == Init /\ [][NextDefineFails]_vars

\* C11 (as stated): when the value of (define name value) fails, the define
\* fails with that error and the environment is unchanged.
C11_AsStated ==
    \A name \in DefNames :
        /\ \A value \in PlainFailures :
              last.expr = Define(name, value) =>
                  (~last.ok /\ last.err = FailureOf(value) /\ env = last.before)
        /\ \A inner \in DefNames :
              last.expr = Define(name, DefinesThenFails(inner)) =>
                  (~last.ok /\ last.err = ErrUnbound /\ env = last.before)

\* C11 (amended): when the value of (define name value) fails, the define fails
\* with that error and binds nothing itself: the environment is what the failed
\* evaluation of value left, which is the environment before the define when
\* value changes nothing, and has the bindings made inside value otherwise.
C11_FailedDefineBindsNothing ==
    \A name \in DefNames :
        /\ \A value \in PlainFailures :
              last.expr = Define(name, value) =>
                  (~last.ok /\ last.err = FailureOf(value) /\ env = last.before)
        /\ \A inner \in DefNames :
              last.expr = Define(name, DefinesThenFails(inner)) =>
                  /\ ~last.ok
                  /\ last.err = ErrUnbound
                  /\ env = [last.before EXCEPT ![1] = Insert(last.before[1], inner, integer(1))]

\* a was 2, (define a u) has failed, and a is still 2
C11_Witness ==
    /\ last.expr = Define("a", symbol("u"))
    /\ ~last.ok
    /\ "a" \in DOMAIN last.before[1]
    /\ last.before[1]["a"] = integer(2)
    /\ env[1]["a"] = integer(2)

(***************************************************************************)
(* Sessions about the keywords of the special forms: a keyword is rebound  *)
(* to a number, the name q is bound to what a keyword evaluates to, and a  *)
(* combination is headed by a keyword or by q.                             *)
(***************************************************************************)
Keywords == {"quote", "define", "defmacro", "lambda", "if", "apply"}

\* operands that fit the special form k:
\* (quote zz) (define w 5) (defmacro (mm x) x) (lambda (x) x) (if nil 1 2) (apply car nil)
Sample(k) ==
    CASE k = "quote" -> create_list(<<symbol("zz")>>)
      [] k = "define" -> create_list(<<symbol("w"), integer(5)>>)
      [] k = "defmacro" -> create_list(<<create_list(<<symbol("mm"), symbol("x")>>), symbol("x")>>)
      [] k = "lambda" -> create_list(<<create_list(<<symbol("x")>>), symbol("x")>>)
      [] k = "if" -> create_list(<<nil, integer(1), integer(2)>>)
      [] k = "apply" -> create_list(<<symbol("car"), nil>>)

RebindKeyword == \E k \in Keywords : Repl(Define(k, integer(42)))

AliasKeyword == \E k \in Keywords : Repl(Define("q", symbol(k)))

UseKeyword == \E k \in Keywords : Repl(Pair(symbol(k), Sample(k)))

\* q heads the operands that fit the form it stands for; any operands when q
\* is unbound or bound to a number
UseAlias ==
    \E k \in Keywords :
        /\ LET h == EnvGet(env, "q")
           IN  ~h.ok \/ h.val = symbol(k) \/ h.val.tag = "Number"
        /\ Repl(Pair(symbol("q"), Sample(k)))

NextKeywords == RebindKeyword \/ AliasKeyword \/ UseKeyword \/ UseAlias

SpecKeywords == Init /\ [][NextKeywords]_vars

\* what the combination of Sample(k) gives when its head is taken as the
\* special form k
ActsAsForm(k) ==
    CASE k = "quote" -> last.ok /\ last.val = symbol("zz") /\ env = last.before
      [] k = "define" ->
            /\ last.ok
            /\ last.val = symbol("w")
            /\ env = [last.before EXCEPT ![1] = Insert(last.before[1], "w", integer(5))]
      [] k = "defmacro" ->
            /\ last.ok
            /\ last.val = symbol("mm")
            /\ env = [last.before EXCEPT ![1] =
                         Insert(last.before[1], "mm",
                                Macro(last.before, create_list(<<symbol("x")>>),
                                      create_list(<<symbol("x")>>)))]
      [] k = "lambda" ->
            /\ last.ok
            /\ last.val = Closure(last.before, create_list(<<symbol("x")>>),
                                  create_list(<<symbol("x")>>))
            /\ env = last.before
      [] k = "if" -> last.ok /\ last.val = integer(2) /\ env = last.before
      [] k = "apply" ->
            \* apply builds (car (quote nil)), whose head quote is looked up too
            /\ env = last.before
            /\ IF EnvGet(last.before, "quote").val = symbol("quote")
               THEN last.ok /\ last.val = nil
               ELSE ~last.ok /\ last.err = ErrNotFunction

\* the outcome of a combination of Sample(k) headed by the name head
HeadDecides(head, k) ==
    LET h == EnvGet(last.before, head)
    IN  IF ~h.ok THEN ~last.ok /\ last.err = ErrUnbound /\ env = last.before
        ELSE IF h.val = symbol(k) THEN ActsAsForm(k)
        ELSE ~last.ok /\ last.err = ErrNotFunction /\ env = last.before

\* C12: the head of a combination is looked up first and the special form is
\* taken only when the lookup gives the keyword symbol: a combination headed
\* by a keyword rebound to 42 fails as a call of a non-function, and one headed
\* by q acts as the special form whose keyword symbol q is bound to.
C12_HeadLookedUpFirst ==
    \A k \in Keywords :
        /\ last.expr = Pair(symbol(k), Sample(k)) => HeadDecides(k, k)
        /\ last.expr = Pair(symbol("q"), Sample(k)) => HeadDecides("q", k)

\* quote was rebound to 42 and (quote zz) has failed as a call of a non-function
C12_Witness ==
    /\ last.expr = Pair(symbol("quote"), Sample("quote"))
    /\ EnvGet(last.before, "quote").val = integer(42)
    /\ ~last.ok
    /\ last.err = ErrNotFunction

(***************************************************************************)
(* Sessions about =: two operands, each an expression whose value is known.*)
(***************************************************************************)
\* expressions and the values they evaluate to: numbers, a symbol, nil, a list,
\* a pair holding a string, strings made by into-string, the sum 1 + 1, and
\* 0 / 0, which is NaN
EqOperands ==
    { [expr |-> integer(1), val |-> integer(1)],
      [expr |-> integer(2), val |-> integer(2)],
      [expr |-> create_list(<<symbol("+"), integer(1), integer(1)>>), val |-> integer(2)],
      [expr |-> quoted(symbol("a")), val |-> symbol("a")],
      [expr |-> quoted(nil), val |-> nil],
      [expr |-> quoted(create_list(<<integer(1), symbol("a")>>)),
       val |-> create_list(<<integer(1), symbol("a")>>)],
      [expr |-> create_list(<<symbol("into-string"), integer(1)>>), val |-> String("1")],
      [expr |-> create_list(<<symbol("into-string"), integer(2)>>), val |-> String("2")],
      [expr |-> create_list(<<symbol("cons"), integer(1),
                              create_list(<<symbol("into-string"), integer(1)>>)>>),
       val |-> Pair(integer(1), String("1"))],
      [expr |-> create_list(<<symbol("/"), integer(0), integer(0)>>), val |-> NaN] }

Equal(x, y) == create_list(<<symbol("="), x, y>>)

CompareValues == \E x \in EqOperands, y \in EqOperands : Repl(Equal(x.expr, y.expr))

NextEqual == CompareValues

SpecEqual == Init /\ [][NextEqual]_vars

\* C13 (as stated): (= x y) is t whenever x and y evaluate to values of the same
\* content, Numbers, Strings, Symbols and Pairs of them alike, in particular
\* (= x x) for every such x.
C13_EqualByContent ==
    \A x \in EqOperands, y \in EqOperands :
        (last.expr = Equal(x.expr, y.expr) /\ x.val = y.val) =>
            (last.ok /\ last.val = t)

\* C13, without Strings and NaN: = is t on Numbers, Symbols and Pairs of the
\* same content, and nil on operands of different content
C13_EqualWithoutStrings ==
    \A x \in EqOperands, y \in EqOperands :
        ( /\ last.expr = Equal(x.expr, y.expr)
          /\ \A v \in {x.val, y.val} :
                v # NaN /\ v.tag # "String" /\ (v.tag = "Pair" => v.cdr.tag # "String") ) =>
            (last.ok /\ last.val = bool(x.val = y.val))

(***************************************************************************)
(* Sessions about cons, car and cdr: operands of every variant.            *)
(***************************************************************************)
\* (defmacro (mm x) x), so that the name mm evaluates to a Macro
DefineMm == DefMacro("mm", create_list(<<symbol("x")>>), create_list(<<symbol("x")>>))

\* (lambda (x) x)
Identity == create_list(<<symbol("lambda"), create_list(<<symbol("x")>>), symbol("x")>>)

\* operands: a number, a quoted symbol, nil, a quoted list, a string made by
\* into-string, a primitive, a closure, a macro
VariantOperands ==
    << integer(1), quoted(symbol("a")), nil, quoted(create_list(<<integer(1), integer(2)>>)),
       create_list(<<symbol("into-string"), integer(1)>>), symbol("car"), Identity,
       symbol("mm") >>

\* what the i-th operand evaluates to in e; mm is unbound until it is defined
VariantValue(i, e) ==
    CASE i = 1 -> [ok |-> TRUE, val |-> integer(1)]
      [] i = 2 -> [ok |-> TRUE, val |-> symbol("a")]
      [] i = 3 -> [ok |-> TRUE, val |-> nil]
      [] i = 4 -> [ok |-> TRUE, val |-> Pair(integer(1), Pair(integer(2), nil))]
      [] i = 5 -> [ok |-> TRUE, val |-> String("1")]
      [] i = 6 -> [ok |-> TRUE, val |-> NativeFunc("car")]
      [] i = 7 -> [ok |-> TRUE,
                   val |-> Closure(e, create_list(<<symbol("x")>>), create_list(<<symbol("x")>>))]
      [] i = 8 -> IF "mm" \in DOMAIN e[1]
                  THEN [ok |-> TRUE, val |-> e[1]["mm"]]
                  ELSE [ok |-> FALSE, val |-> nil]

NumVariants == Len(VariantOperands)

\* the operand after the i-th, going round
NextVariant(i) == (i % NumVariants) + 1

\* (cons a b)
Cons(i, j) == create_list(<<symbol("cons"), VariantOperands[i], VariantOperands[j]>>)

DefineMacroValue == Repl(DefineMm)

ConsPair == \E i \in 1..NumVariants : \E j \in {i, NextVariant(i)} : Repl(Cons(i, j))

TakeConsApart ==
    \E f \in {"car", "cdr", "pair?"}, i \in 1..NumVariants :
        \E j \in {i, NextVariant(i)} : Repl(Call(symbol(f), <<Cons(i, j)>>))

NextCons == DefineMacroValue \/ ConsPair \/ TakeConsApart

SpecCons == Init /\ [][NextCons]_vars

\* C14: for operands a and b of every variant, (cons a b) never fails and is
\* the pair of their values, (car (cons a b)) is the value of a,
\* (cdr (cons a b)) the value of b, and (pair? (cons a b)) is t.
C14_ConsCarCdr ==
    \A i \in 1..NumVariants :
        \A j \in {i, NextVariant(i)} :
            LET a == VariantValue(i, last.before)
                b == VariantValue(j, last.before)
            IN  (a.ok /\ b.ok) =>
                  /\ last.expr = Cons(i, j) => (last.ok /\ last.val = Pair(a.val, b.val))
                  /\ last.expr = Call(symbol("car"), <<Cons(i, j)>>) =>
                        (last.ok /\ last.val = a.val)
                  /\ last.expr = Call(symbol("cdr"), <<Cons(i, j)>>) =>
                        (last.ok /\ last.val = b.val)
                  /\ last.expr = Call(symbol("pair?"), <<Cons(i, j)>>) =>
                        (last.ok /\ last.val = t)

\* (cdr (cons (lambda (x) x) mm)) has returned the macro mm
C14_Witness ==
    /\ last.expr = Call(symbol("cdr"), <<Cons(7, 8)>>)
    /\ last.ok
    /\ last.val.tag = "Macro"

(***************************************************************************)
(* Sessions about car and cdr of one argument of every variant.            *)
(***************************************************************************)
TakeCarCdrOfVariant ==
    \E f \in {"car", "cdr"}, i \in 1..NumVariants : Repl(Call(symbol(f), <<VariantOperands[i]>>))

TakeCarCdrOfPair ==
    \E f \in {"car", "cdr"}, i \in 1..NumVariants :
        \E j \in {i, NextVariant(i)} : Repl(Call(symbol(f), <<Cons(i, j)>>))

NextCarCdr == DefineMacroValue \/ TakeCarCdrOfVariant \/ TakeCarCdrOfPair

SpecCarCdr == Init /\ [][NextCarCdr]_vars

\* what car (first = TRUE) or cdr of the value v is to be
LenientPart(first, v) ==
    IF v.tag = "Pair" THEN (IF first THEN v.car ELSE v.cdr) ELSE v

\* C15: car and cdr of one argument never fail: of a Pair they give its car
\* (its cdr), of nil they give nil, of any other value the value itself.
C15_LenientCarCdr ==
    \A f \in {"car", "cdr"}, i \in 1..NumVariants :
        /\ ( /\ last.expr = Call(symbol(f), <<VariantOperands[i]>>)
             /\ VariantValue(i, last.before).ok ) =>
                /\ last.ok
                /\ last.val = LenientPart(f = "car", VariantValue(i, last.before).val)
        /\ \A j \in {i, NextVariant(i)} :
              ( /\ last.expr = Call(symbol(f), <<Cons(i, j)>>)
                /\ VariantValue(i, last.before).ok
                /\ VariantValue(j, last.before).ok ) =>
                  /\ last.ok
                  /\ last.val = LenientPart(f = "car", Pair(VariantValue(i, last.before).val,
                                                           VariantValue(j, last.before).val))

\* (cdr car) has returned the primitive car itself
C15_Witness ==
    /\ last.expr = Call(symbol("cdr"), <<symbol("car")>>)
    /\ last.ok
    /\ last.val = NativeFunc("car")

(***************************************************************************)
(* Sessions about if: 0..MaxIfOperands operands, the first a test, the     *)
(* others branches that are numbers or defines.                            *)
(***************************************************************************)
MaxIfOperands == 4

\* tests and their values: nil, t, 0 (which is not nil), (quote nil), and the
\* name u that nothing defines
IfTests == {nil, t, integer(0), quoted(nil), symbol("u")}

TestFails(test) == test = symbol("u")
TestValue(test) == IF test = quoted(nil) THEN nil ELSE test

\* branches: the numbers 1, 2, 3, ..., or (define w 1), (define z 2),
\* (define v 3), ...
BranchName(i) == IF i = 1 THEN "w" ELSE IF i = 2 THEN "z" ELSE "v"

Branches(defines) ==
    [i \in 1..MaxIfOperands |->
        IF defines THEN Define(BranchName(i), integer(i)) ELSE integer(i)]

\* (if test then else ...) with m operands in all
If(test, defines, m) ==
    Pair(symbol("if"), create_list(SubSeq(<<test>> \o Branches(defines), 1, m)))

EvalIf ==
    \E test \in IfTests, defines \in BOOLEAN, m \in 0..MaxIfOperands :
        Repl(If(test, defines, m))

NextIf == EvalIf

SpecIf == Init /\ [][NextIf]_vars

\* the outcome of evaluating the branch: its value and what it binds
BranchDone(branch) ==
    IF branch.tag = "Number"
    THEN last.val = branch /\ env = last.before
    ELSE /\ last.val = branch.cdr.car
         /\ env = [last.before EXCEPT ![1] =
                      Insert(last.before[1], branch.cdr.car.name, branch.cdr.cdr.car)]

\* C16: if with a number of operands other than three fails and evaluates no
\* operand; with three it evaluates the test once and then exactly one branch,
\* the second operand when the test value is not nil and the third when it is
\* nil; the other branch is not evaluated; a failing test fails the if with no
\* branch evaluated.
C16_IfOneBranch ==
    \A test \in IfTests, defines \in BOOLEAN, m \in 0..MaxIfOperands :
        last.expr = If(test, defines, m) =>
            LET ops == SubSeq(<<test>> \o Branches(defines), 1, m)
            IN  IF m # 3
                THEN /\ ~last.ok
                     /\ last.err = ErrIfArity
                     /\ env = last.before
                     /\ \A i \in 1..m : Evaluations(last.log, ops[i]) = 0
                ELSE /\ Evaluations(last.log, test) = 1
                     /\ IF TestFails(test)
                        THEN /\ ~last.ok
                             /\ last.err = ErrUnbound
                             /\ env = last.before
                             /\ Evaluations(last.log, ops[2]) = 0
                             /\ Evaluations(last.log, ops[3]) = 0
                        ELSE LET chosen == IF TestValue(test) # nil THEN 2 ELSE 3
                             IN  /\ last.ok
                                 /\ BranchDone(ops[chosen])
                                 /\ Evaluations(last.log, ops[chosen]) = 1
                                 /\ Evaluations(last.log, ops[5 - chosen]) = 0

\* (if 0 (define w 1) (define z 2)) has defined w and not z
C16_Witness ==
    /\ last.expr = If(integer(0), TRUE, 3)
    /\ last.ok
    /\ last.val = symbol("w")
    /\ "w" \in DOMAIN env[1]
    /\ "z" \notin DOMAIN env[1]

(***************************************************************************)
(* Sessions about quote: 0..MaxQuoteOperands operands, with a defined      *)
(* beside them so that a quoted name differs from its value.               *)
(***************************************************************************)
MaxQuoteOperands == 3

\* operands: nil, a number, the names a (which a define may bind) and u
\* (which nothing binds), combinations whose evaluation would fail or bind,
\* a dotted pair, a quote form
QuoteOperands ==
    << nil, integer(1), symbol("a"), symbol("u"),
       Call(symbol("car"), <<integer(1), integer(2)>>),
       Define("a", integer(5)),
       Pair(integer(1), integer(2)),
       quoted(symbol("u")) >>

\* the m operands that start at the k-th
QuoteOperandSeq(k, m) ==
    [i \in 1..m |-> QuoteOperands[((k + i - 2) % Len(QuoteOperands)) + 1]]

Quote(k, m) == Pair(symbol("quote"), create_list(QuoteOperandSeq(k, m)))

EvalQuote ==
    \E k \in 1..Len(QuoteOperands), m \in 0..MaxQuoteOperands : Repl(Quote(k, m))

NextQuote == EvalQuote \/ DefineValue \/ EvalName

SpecQuote == Init /\ [][NextQuote]_vars

\* C17: (quote x) returns x itself and evaluates nothing but the form and its
\* head, whatever x is; a quote form with no operand or with more than one
\* fails with the arity error; neither changes the environment.
C17_QuoteUnevaluated ==
    \A k \in 1..Len(QuoteOperands), m \in 0..MaxQuoteOperands :
        last.expr = Quote(k, m) =>
            /\ env = last.before
            /\ last.log = <<Ev(Quote(k, m)), Ev(symbol("quote"))>>
            /\ IF m = 1
               THEN last.ok /\ last.val = QuoteOperands[k]
               ELSE ~last.ok /\ last.err = ErrQuoteArity

\* with a bound to 10, (quote a) is the symbol a
C17_Witness ==
    /\ last.expr = Quote(3, 1)
    /\ last.ok
    /\ last.val = symbol("a")
    /\ EnvGet(env, "a").ok
    /\ EnvGet(env, "a").val = integer(10)

(***************************************************************************)
(* Sessions about lambda: formals of every shape, bodies of                *)
(* 0..MaxLambdaBody expressions, and the lambda form with no operand.      *)
(***************************************************************************)
MaxLambdaBody == 2

\* formals as written, and whether they are nil, a symbol, a proper list of
\* symbols or a list of symbols that ends in a symbol
LambdaFormals ==
    << [expr |-> nil,                                                 valid |-> TRUE],
       [expr |-> symbol("r"),                                         valid |-> TRUE],
       [expr |-> create_list(<<symbol("x")>>),                        valid |-> TRUE],
       [expr |-> create_list(<<symbol("x"), symbol("y")>>),           valid |-> TRUE],
       [expr |-> create_list(<<symbol("x"), symbol("x")>>),           valid |-> TRUE],
       [expr |-> create_improper_list(<<symbol("x")>>, symbol("r")),  valid |-> TRUE],
       [expr |-> create_improper_list(<<symbol("x"), symbol("y")>>, symbol("r")),
                                                                      valid |-> TRUE],
       [expr |-> integer(5),                                          valid |-> FALSE],
       [expr |-> create_list(<<integer(1)>>),                         valid |-> FALSE],
       [expr |-> create_list(<<symbol("x"), integer(1)>>),            valid |-> FALSE],
       [expr |-> create_list(<<integer(1), symbol("x")>>),            valid |-> FALSE],
       [expr |-> create_improper_list(<<symbol("x")>>, integer(1)),   valid |-> FALSE],
       [expr |-> create_improper_list(<<symbol("x"), symbol("y")>>, integer(1)),
                                                                      valid |-> FALSE],
       [expr |-> create_list(<<create_list(<<symbol("x")>>), symbol("y")>>),
                                                                      valid |-> FALSE],
       [expr |-> create_list(<<symbol("x"), create_list(<<symbol("y")>>)>>),
                                                                      valid |-> FALSE] >>

\* body expressions: the name u that nothing defines, then numbers
LambdaBody(m) == [i \in 1..m |-> IF i = 1 THEN symbol("u") ELSE integer(i)]

\* (lambda formals body...) with m body expressions
Lambda(k, m) ==
    Pair(symbol("lambda"), Pair(LambdaFormals[k].expr, create_list(LambdaBody(m))))

\* (lambda)
LambdaAlone == create_list(<<symbol("lambda")>>)

EvalLambda ==
    \E k \in 1..Len(LambdaFormals), m \in 0..MaxLambdaBody : Repl(Lambda(k, m))

EvalLambdaAlone == Repl(LambdaAlone)

NextLambda == EvalLambda \/ EvalLambdaAlone \/ DefineValue

SpecLambda == Init /\ [][NextLambda]_vars

\* the errors of a lambda form of the wrong shape
InvalidClosureForm == {ErrLambdaForm, ErrArgNames, ErrBody}

\* C18: (lambda formals body...) gives the closure of the current environment,
\* the formals and the body exactly when the formals are nil, a symbol, a
\* list of symbols or a list of symbols ending in a symbol, and the body has
\* at least one expression; otherwise it fails with an error about the form
\* of the closure and gives no value; in no case is anything but the form and
\* its head evaluated or the environment changed.
C18_LambdaValidated ==
    /\ \A k \in 1..Len(LambdaFormals), m \in 0..MaxLambdaBody :
          last.expr = Lambda(k, m) =>
              /\ env = last.before
              /\ last.log = <<Ev(Lambda(k, m)), Ev(symbol("lambda"))>>
              /\ IF LambdaFormals[k].valid /\ m >= 1
                 THEN /\ last.ok
                      /\ last.val = Closure(last.before, LambdaFormals[k].expr,
                                             create_list(LambdaBody(m)))
                 ELSE /\ ~last.ok
                      /\ last.err \in InvalidClosureForm
                      /\ last.val = nil
    /\ last.expr = LambdaAlone =>
          ~last.ok /\ last.err \in InvalidClosureForm /\ env = last.before

\* with a bound, (lambda (x . r) u) is a closure over that environment, though
\* nothing binds u
C18_Witness ==
    /\ last.expr = Lambda(6, 1)
    /\ last.ok
    /\ last.val.tag = "Closure"
    /\ last.val.env = env
    /\ EnvGet(env, "a").ok
    /\ ~EnvGet(env, "u").ok

(***************************************************************************)
(* Sessions about dotted combinations: evaluated at the top level, as an   *)
(* operand after a define, and as the head of a combination.               *)
(***************************************************************************)
\* pairs whose cdr chain ends in something other than nil; their heads are
\* primitives, keywords, a define that would bind a, an unbound name, a
\* number
ImproperForms ==
    << Pair(symbol("car"), integer(1)),
       create_improper_list(<<symbol("car"), integer(1)>>, integer(2)),
       create_improper_list(<<symbol("cons"), integer(1), integer(2)>>, symbol("a")),
       create_improper_list(<<symbol("define"), symbol("a")>>, integer(1)),
       create_improper_list(<<symbol("define"), symbol("a"), integer(1)>>, integer(2)),
       create_improper_list(<<symbol("quote"), symbol("x")>>, symbol("y")),
       create_improper_list(<<symbol("if"), t, integer(1)>>, integer(2)),
       create_improper_list(<<symbol("lambda"), symbol("x")>>, integer(1)),
       Pair(Define("a", integer(1)), integer(2)),
       create_improper_list(<<symbol("car"), Define("a", integer(1))>>, integer(2)),
       Pair(symbol("u"), integer(1)),
       Pair(integer(1), integer(2)),
       create_improper_list(<<symbol("car"), symbol("quote")>>, symbol("x")) >>

\* (cons (define a 1) x)
AsOperand(x) == Call(symbol("cons"), <<Define("a", integer(1)), x>>)

\* (x 2)
AsHead(x) == Call(x, <<integer(2)>>)

EvalImproper == \E k \in 1..Len(ImproperForms) : Repl(ImproperForms[k])

EvalImproperOperand == \E k \in 1..Len(ImproperForms) : Repl(AsOperand(ImproperForms[k]))

EvalImproperHead == \E k \in 1..Len(ImproperForms) : Repl(AsHead(ImproperForms[k]))

NextImproper ==
    EvalImproper \/ EvalImproperOperand \/ EvalImproperHead \/ DefineValue \/ EvalName

SpecImproper == Init /\ [][NextImproper]_vars

\* C19: the evaluation of a dotted combination fails with the improper-list
\* error with nothing of it evaluated and the environment as it was when the
\* evaluation reached it: unchanged at the top level and as a head, and with
\* only the binding of the operand before it when it is a later operand.
C19_ImproperRejectedFirst ==
    \A k \in 1..Len(ImproperForms) :
        LET x == ImproperForms[k]
        IN  /\ last.expr = x =>
                  /\ ~last.ok
                  /\ last.err = ErrImproper
                  /\ env = last.before
                  /\ last.log = <<Ev(x)>>
            /\ last.expr = AsHead(x) =>
                  /\ ~last.ok
                  /\ last.err = ErrImproper
                  /\ env = last.before
                  /\ last.log = <<Ev(AsHead(x)), Ev(x)>>
            /\ last.expr = AsOperand(x) =>
                  /\ ~last.ok
                  /\ last.err = ErrImproper
                  /\ env = EnvSet(last.before, "a", integer(1))
                  /\ last.log[Len(last.log)] = Ev(x)
                  /\ Evaluations(last.log, x) = 1

\* with a bound to 10, ((define a 1) . 2) has failed and a is still 10
C19_Witness ==
    /\ last.expr = ImproperForms[9]
    /\ ~last.ok
    /\ last.err = ErrImproper
    /\ EnvGet(env, "a").ok
    /\ EnvGet(env, "a").val = integer(10)

(***************************************************************************)
(* Sessions about Env: child environments are made of the current one,     *)
(* names are set in the innermost frame and looked up.                     *)
(***************************************************************************)
\* longest chain of frames that is built
MaxFrames == 4

\* a and car are set, car is also a builtin of the outermost frame, nothing
\* sets u
SetNames == {"a", "car"}
GetNames == {"a", "car", "u"}

\* Env::new(Some(env)): a child of the current environment
NewChild ==
    /\ Len(env) < MaxFrames
    /\ env' = EnvNew(env)
    /\ UNCHANGED <<last, steps>>

\* Env::set through (define name v)
SetName == \E name \in SetNames, v \in 1..2 : Repl(Define(name, integer(v)))

\* Env::get through the evaluation of the symbol
GetName == \E name \in GetNames : Repl(symbol(name))

NextEnv == NewChild \/ SetName \/ GetName

SpecEnv == Init /\ [][NextEnv]_vars

\* the frames of the chain that bind the name, innermost first
Binders(e, name) == {i \in 1..Len(e) : name \in DOMAIN e[i]}

\* the n outermost frames of the chain: the chain as it was before the
\* children made since
Ancestors(e, n) == SubSeq(e, Len(e) - n + 1, Len(e))

\* C20: the lookup of a name gives the binding of the innermost frame of the
\* chain that binds it, and fails with the unbound-symbol error exactly when
\* no frame binds it; it changes no frame of the chain.
C20_NearestBinding ==
    \A name \in GetNames :
        last.expr = symbol(name) =>
            LET bs == Binders(last.before, name)
            IN  /\ Ancestors(env, Len(last.before)) = last.before
                /\ IF bs = {}
                   THEN ~last.ok /\ last.err = ErrUnbound
                   ELSE /\ last.ok
                        /\ \E i \in bs :
                              /\ \A j \in bs : i <= j
                              /\ last.val = last.before[i][name]

\* car is a builtin in the outermost frame, 1 in the frame below and 2 in the
\* innermost frame, and its lookup has given 2
C20_Witness ==
    /\ last.expr = symbol("car")
    /\ last.ok
    /\ last.val = integer(2)
    /\ Len(env) >= 3
    /\ "car" \in DOMAIN env[1]
    /\ env[1]["car"] = integer(2)
    /\ \E i \in 2..(Len(env) - 1) : "car" \in DOMAIN env[i] /\ env[i]["car"] = integer(1)
    /\ env[Len(env)]["car"].tag = "NativeFunc"

\* C21: a set of a name changes the innermost frame only, and there only the
\* binding of that name: the frame binds what it bound plus the name, the
\* name has the new value, every other name of the frame has its value, and
\* every ancestor frame is as it was, its binding of the same name included.
C21_SetInFrameOnly ==
    \A name \in SetNames, v \in 1..2 :
        last.expr = Define(name, integer(v)) =>
            LET n     == Len(last.before)
                after == Ancestors(env, n)
            IN  /\ last.ok
                /\ DOMAIN after[1] = DOMAIN last.before[1] \cup {name}
                /\ after[1][name] = integer(v)
                /\ \A k \in DOMAIN last.before[1] \ {name} :
                      after[1][k] = last.before[1][k]
                /\ \A i \in 2..n : after[i] = last.before[i]

\* car was 1 in the parent frame and a builtin in the outermost frame, and
\* both are so after (define car 2) in the child
C21_Witness ==
    /\ last.expr = Define("car", integer(2))
    /\ last.ok
    /\ Len(last.before) >= 3
    /\ "car" \notin DOMAIN last.before[1]
    /\ "car" \in DOMAIN last.before[2]
    /\ last.before[2]["car"] = integer(1)
    /\ Len(env) = Len(last.before)
    /\ env[1]["car"] = integer(2)
    /\ env[2]["car"] = integer(1)
    /\ env[Len(env)]["car"].tag = "NativeFunc"

(***************************************************************************)
(* Sessions about expressions whose evaluation reaches no define,          *)
(* defmacro, print or println, in environments that defines have made.     *)
(***************************************************************************)
\* (define g (lambda (x) (if x a (quote none))))
DefineG ==
    Define("g", create_list(<<symbol("lambda"), create_list(<<symbol("x")>>),
                              create_list(<<symbol("if"), symbol("x"), symbol("a"),
                                            quoted(symbol("none"))>>)>>))

\* names, primitives, closure and macro calls with right and wrong operands,
\* forms that hold a define that is not reached, and failures
PureExprs ==
    << symbol("a"),
       Call(symbol("+"), <<integer(1), symbol("a")>>),
       Call(symbol("="), <<symbol("a"), integer(10)>>),
       Call(symbol("g"), <<integer(1)>>),
       Call(symbol("g"), <<nil>>),
       Call(symbol("g"), <<symbol("u")>>),
       Call(symbol("g"), <<>>),
       Call(symbol("g"), <<integer(1), integer(2)>>),
       Call(create_list(<<symbol("lambda"), symbol("a"), symbol("a")>>),
            <<integer(5), integer(6)>>),
       Call(create_list(<<symbol("lambda"),
                          create_improper_list(<<symbol("x")>>, symbol("r")),
                          Call(symbol("cons"), <<symbol("x"), symbol("r")>>)>>),
            <<integer(1), integer(2), symbol("a")>>),
       create_list(<<symbol("if"), symbol("a"), integer(1), integer(2)>>),
       create_list(<<symbol("if"), nil, Define("a", integer(1)), integer(2)>>),
       quoted(Define("a", integer(1))),
       create_list(<<symbol("lambda"), create_list(<<symbol("x")>>), Define("a", integer(1))>>),
       create_list(<<symbol("apply"), symbol("g"), quoted(create_list(<<integer(1)>>))>>),
       Call(symbol("mm"), <<integer(5)>>),
       Call(symbol("mm"), <<symbol("a")>>),
       Call(symbol("/"), <<integer(0), integer(0)>>),
       Call(symbol("into-string"), <<symbol("a")>>),
       Call(symbol("cdr"), <<symbol("g")>>),
       Pair(symbol("car"), integer(1)) >>

DefineClosureG == Repl(DefineG)

EvalPure == \E k \in 1..Len(PureExprs) : Repl(PureExprs[k])

NextPure == DefineValue \/ DefineClosureG \/ DefineMacroValue \/ EvalPure

SpecPure == Init /\ [][NextPure]_vars

\* the outcome of the last evaluation: its value, or that it failed
Outcome(l) == IF l.ok THEN [ok |-> TRUE, val |-> l.val] ELSE [ok |-> FALSE, val |-> nil]

OrderedPrimitives == {"car", "cons", "println"}

OperandName(i) == <<"w", "z", "v">>[((i - 1) % 3) + 1]

\* m operands: the i-th is (define w i), (define z i), (define v i), ..., but
\* the j-th (when j > 0) is the name u, which nothing defines
DefineSeq(m, j) ==
    [i \in 1..m |-> IF i = j THEN symbol("u") ELSE Define(OperandName(i), integer(i))]

PrimitiveOnDefines(f, m, j) == Call(symbol(f), DefineSeq(m, j))

CallOnDefines ==
    \E f \in OrderedPrimitives, m \in 0..MaxPrimOperands :
        \E j \in 0..m : Repl(PrimitiveOnDefines(f, m, j))

NextOperands == CallOnDefines

SpecOperands == Init /\ [][NextOperands]_vars

\* where the log has the evaluation of expr
Position(log, expr) == CHOOSE i \in 1..Len(log) : log[i] = Ev(expr)

\* the environment after the first n operands of DefineSeq were evaluated in e
RECURSIVE AfterDefines(_, _, _)
AfterDefines(e, ops, n) ==
    IF n = 0 THEN e
    ELSE [AfterDefines(e, ops, n - 1) EXCEPT ![1] =
             Insert(@, ops[n].cdr.car.name, ops[n].cdr.cdr.car)]

\* the call of f on the operands ops, of which those before the j-th are
\* evaluated (all when j = 0): the operator first, then the operands once
\* each from left to right in the caller's environment, then the primitive on
\* the list of their values; a failing operand ends the call before the later
\* operands and before the primitive
OperandsThenPrimitive(f, ops, j) ==
    LET m    == Len(ops)
        done == IF j = 0 THEN m ELSE j - 1
    IN  /\ last.log[1] = Ev(Call(symbol(f), ops))
        /\ last.log[2] = Ev(symbol(f))
        /\ \A i \in 1..m :
              Evaluations(last.log, ops[i]) = (IF i <= done \/ i = j THEN 1 ELSE 0)
        /\ \A i \in 1..m : \A k \in 1..m :
              (i < k /\ (k <= done \/ k = j)) =>
                  Position(last.log, ops[i]) < Position(last.log, ops[k])
        /\ env = AfterDefines(last.before, ops, done)
        /\ IF j > 0
           THEN /\ ~last.ok
                /\ last.err = ErrUnbound
                /\ \A i \in 1..Len(last.log) : last.log[i].k = "eval"
           ELSE LET n == CallNative(f, create_list([i \in 1..m |-> ops[i].cdr.car]))
                IN  /\ last.ok = n.ok
                    /\ last.val = n.val
                    /\ last.err = n.err
                    /\ \A i \in 1..Len(last.log) :
                          last.log[i].k = "out" =>
                              \A k \in 1..m : Position(last.log, ops[k]) < i
                    /\ Cardinality({i \in 1..Len(last.log) : last.log[i].k = "out"})
                          = Len(n.out)

\* C23 (as stated): in a call of a primitive the operator is evaluated first,
\* then every operand exactly once from left to right in the caller's
\* environment, and then the primitive is invoked on the list of the values;
\* when an operand fails the later ones are not evaluated and the primitive
\* is not invoked.
C23_AsStated ==
    \A f \in OrderedPrimitives, m \in 0..MaxPrimOperands :
        \A j \in 0..m :
            last.expr = PrimitiveOnDefines(f, m, j) =>
                OperandsThenPrimitive(f, DefineSeq(m, j), j)

\* C23, calls with at least one operand: the order and the invocation are as
\* stated.
C23_SomeOperands ==
    \A f \in OrderedPrimitives, m \in 1..MaxPrimOperands :
        \A j \in 0..m :
            last.expr = PrimitiveOnDefines(f, m, j) =>
                OperandsThenPrimitive(f, DefineSeq(m, j), j)

(***************************************************************************)
(* Sessions that call a closure whose body is a sequence of 1..MaxBody     *)
(* expressions, each using the binding that the one before it made.        *)
(***************************************************************************)
\* the name that the expression before the i-th has bound: the formal x at
\* first
BoundBefore(i) == IF i = 1 THEN "x" ELSE OperandName(i - 1)

\* (cons i prev)
Link(i) == Call(symbol("cons"), <<integer(i), symbol(BoundBefore(i))>>)

\* k body expressions: (define w (cons 1 x)) (define z (cons 2 w)) ... and at
\* the end (cons k prev); the j-th (when j > 0) is the name u instead
LinkedBody(k, j) ==
    [i \in 1..k |-> IF i = j THEN symbol("u")
                    ELSE IF i = k THEN Link(i)
                    ELSE Define(OperandName(i), Link(i))]

\* ((lambda (x) body...) v)
CallWithBody(k, j, v) ==
    Call(Pair(symbol("lambda"), Pair(create_list(<<symbol("x")>>), create_list(LinkedBody(k, j)))),
         <<integer(v)>>)

\* (define w 98) or (define z 99) in the caller's environment
DefineInCaller == \E name \in {"w", "z"}, v \in {98, 99} : Repl(Define(name, integer(v)))

CallLinkedBody ==
    \E k \in 1..MaxBody, v \in {0, 5} :
        \E j \in 0..k : Repl(CallWithBody(k, j, v))

NextBody == DefineInCaller \/ CallLinkedBody

SpecBody == Init /\ [][NextBody]_vars

\* (k . (k-1 . ... (1 . v)))
RECURSIVE Links(_, _)
Links(k, v) == IF k = 0 THEN integer(v) ELSE Pair(integer(k), Links(k - 1, v))

\* C24: the body expressions of a closure are evaluated once each, in order,
\* each in the call's environment with the bindings of the earlier ones, and
\* the call has the value of the last; when one fails the later ones are not
\* evaluated and the call fails; the caller's environment is as it was.
C24_BodyInSequence ==
    \A k \in 1..MaxBody, v \in {0, 5} :
        \A j \in 0..k :
            last.expr = CallWithBody(k, j, v) =>
                LET body == LinkedBody(k, j)
                    done == IF j = 0 THEN k ELSE j
                IN  /\ env = last.before
                    /\ \A i \in 1..k :
                          Evaluations(last.log, body[i]) = (IF i <= done THEN 1 ELSE 0)
                    /\ \A i \in 1..done : \A n \in 1..done :
                          i < n => Position(last.log, body[i]) < Position(last.log, body[n])
                    /\ IF j = 0
                       THEN last.ok /\ last.val = Links(k, v)
                       ELSE ~last.ok /\ last.err = ErrUnbound

\* with w bound to 98 in the caller, ((lambda (x) (define w (cons 1 x))
\* (define z (cons 2 w)) (cons 3 z)) 5) is (3 2 1 . 5) and w is still 98
C24_Witness ==
    /\ last.expr = CallWithBody(3, 0, 5)
    /\ last.ok
    /\ last.val = Links(3, 5)
    /\ EnvGet(env, "w").ok
    /\ EnvGet(env, "w").val = integer(98)

(***************************************************************************)
(* Sessions about defmacro: first operands of every shape, bodies of       *)
(* 0..MaxLambdaBody expressions.                                           *)
(***************************************************************************)
\* the first operand as written, and whether it is a pair headed by a symbol
\* with valid formals after it
MacroHeads ==
    << [expr |-> create_list(<<symbol("m")>>),                              valid |-> TRUE],
       [expr |-> create_list(<<symbol("m"), symbol("x")>>),                 valid |-> TRUE],
       [expr |-> create_list(<<symbol("m"), symbol("x"), symbol("y")>>),    valid |-> TRUE],
       [expr |-> Pair(symbol("m"), symbol("r")),                            valid |-> TRUE],
       [expr |-> create_improper_list(<<symbol("m"), symbol("x")>>, symbol("r")),
                                                                            valid |-> TRUE],
       [expr |-> create_list(<<symbol("a"), symbol("x")>>),                 valid |-> TRUE],
       [expr |-> symbol("m"),                                               valid |-> FALSE],
       [expr |-> nil,                                                       valid |-> FALSE],
       [expr |-> integer(5),                                                valid |-> FALSE],
       [expr |-> create_list(<<integer(5), symbol("x")>>),                  valid |-> FALSE],
       [expr |-> create_list(<<create_list(<<symbol("m")>>), symbol("x")>>),
                                                                            valid |-> FALSE],
       [expr |-> create_list(<<symbol("m"), integer(1)>>),                  valid |-> FALSE],
       [expr |-> Pair(symbol("m"), integer(1)),                             valid |-> FALSE],
       [expr |-> create_improper_list(<<symbol("m"), symbol("x")>>, integer(1)),
                                                                            valid |-> FALSE] >>

\* (defmacro head body...) with n body expressions
DefmacroForm(k, n) ==
    Pair(symbol("defmacro"), Pair(MacroHeads[k].expr, create_list(LambdaBody(n))))

EvalDefmacro ==
    \E k \in 1..Len(MacroHeads), n \in 0..MaxLambdaBody : Repl(DefmacroForm(k, n))

NextDefmacro == EvalDefmacro \/ DefineValue

SpecDefmacro == Init /\ [][NextDefmacro]_vars

\* what (defmacro head body...) does when head is the k-th of MacroHeads
DefmacroOutcome(k, n) ==
    LET head == MacroHeads[k].expr
    IN  IF MacroHeads[k].valid /\ n >= 1
        THEN /\ last.ok
             /\ last.val = head.car
             /\ env = [last.before EXCEPT ![1] =
                          Insert(@, head.car.name,
                                 Macro(last.before, head.cdr, create_list(LambdaBody(n))))]
             /\ \A i \in 2..Len(env) : env[i] = last.before[i]
        ELSE ~last.ok /\ env = last.before

\* C25 (as stated): (defmacro (name . formals) body...) with a symbol as name,
\* valid formals and at least one body expression binds name in the current
\* frame to the macro of the current environment, the formals and the body,
\* and returns the symbol name; with a first operand that is not a pair
\* headed by a symbol, with invalid formals or with no body, it fails and
\* leaves the environment unchanged.
C25_AsStated ==
    \A k \in 1..Len(MacroHeads), n \in 0..MaxLambdaBody :
        last.expr = DefmacroForm(k, n) => DefmacroOutcome(k, n)

\* C25, first operands that are not symbols: the form does what is stated.
C25_HeadNotSymbol ==
    \A k \in 1..Len(MacroHeads), n \in 0..MaxLambdaBody :
        (last.expr = DefmacroForm(k, n) /\ MacroHeads[k].expr.tag # "Symbol") =>
            DefmacroOutcome(k, n)

(***************************************************************************)
(* The reader (parsing.rs): lexer over the characters of a text, parser    *)
(* over the tokens.  A text is a string; At gives its i-th character.      *)
(***************************************************************************)
At(src, i) == IF 1 <= i /\ i <= Len(src) THEN SubSeq(src, i, i) ELSE ""

Whitespace == {" "}

\* the grave accent of parsing.rs 57.  A string of this language cannot hold
\* that character: the texts here write ^ for it, which the lexer gives no
\* other meaning
Backquote == "^"

DigitChars == <<"0", "1", "2", "3", "4", "5", "6", "7", "8", "9">>
Digits == {DigitChars[i] : i \in 1..Len(DigitChars)}
DigitValue(c) == (CHOOSE i \in 1..Len(DigitChars) : DigitChars[i] = c) - 1

\* parsing.rs 35-40
IdStartChars ==
    {"a", "b", "c", "d", "e", "f", "g", "h", "i", "j", "k", "l", "m", "n", "o", "p", "q", "r",
     "s", "t", "u", "v", "w", "x", "y", "z",
     "A", "B", "C", "D", "E", "F", "G", "H", "I", "J", "K", "L", "M", "N", "O", "P", "Q", "R",
     "S", "T", "U", "V", "W", "X", "Y", "Z",
     "+", "-", "*", "/", "%", "_", "=", "<", ">", "?"}

\* parsing.rs 40-44
IdChars == IdStartChars \cup Digits \cup {":"}

\* repeated() of a character class: the first position from i on that is not
\* in the class
RECURSIVE RunEnd(_, _, _)
RunEnd(src, i, class) ==
    IF At(src, i) \in class THEN RunEnd(src, i + 1, class) ELSE i

\* text::int(10): 0, or a digit that is not 0 and the digits after it; the
\* position after it, or 0 when there is none
IntEnd(src, i) ==
    IF At(src, i) = "0" THEN i + 1
    ELSE IF At(src, i) \in Digits THEN RunEnd(src, i, Digits)
    ELSE 0

\* parsing.rs 61-74: the position after the number that begins at i, or 0
NumberEnd(src, i) ==
    LET a == IntEnd(src, IF At(src, i) = "-" THEN i + 1 ELSE i)
    IN  IF a = 0 THEN 0
        ELSE LET b == IF At(src, a) = "." /\ At(src, a + 1) \in Digits
                      THEN RunEnd(src, a + 1, Digits) ELSE a
                 x == IF At(src, b) \in {"e", "E"}
                      THEN (IF At(src, b + 1) \in {"+", "-"} THEN b + 2 ELSE b + 1)
                      ELSE 0
             IN  IF x # 0 /\ At(src, x) \in Digits THEN RunEnd(src, x, Digits) ELSE b

\* parsing.rs 34-50: the position after the symbol that begins at i, or 0
SymbolEnd(src, i) ==
    IF At(src, i) \in IdStartChars THEN RunEnd(src, i + 1, IdChars) ELSE 0

Token(kind, text, next) == [ok |-> TRUE, kind |-> kind, s |-> text, next |-> next]
NoToken == [ok |-> FALSE, kind |-> "", s |-> "", next |-> 0]

\* parsing.rs 78-88 with the unquote before the unquote-splicing: , is a
\* token also when @ follows
token_unquote_first(src, i) ==
    LET c == At(src, i)
    IN  CASE c = "(" -> Token("OpenParen", "", i + 1)
          [] c = ")" -> Token("CloseParen", "", i + 1)
          [] c = "." -> Token("PairSeparator", "", i + 1)
          [] c = "'" -> Token("Quote", "", i + 1)
          [] c = "," -> Token("Unquote", "", i + 1)
          [] c = Backquote -> Token("QuasiQuote", "", i + 1)
          [] OTHER ->
               IF NumberEnd(src, i) # 0
               THEN Token("Number", SubSeq(src, i, NumberEnd(src, i) - 1), NumberEnd(src, i))
               ELSE IF SymbolEnd(src, i) # 0
               THEN Token("Symbol", SubSeq(src, i, SymbolEnd(src, i) - 1), SymbolEnd(src, i))
               ELSE NoToken

\* parsing.rs 78-88: the choice of the token that begins at i, in its order
token(src, i) ==
    LET c == At(src, i)
    IN  CASE c = "(" -> Token("OpenParen", "", i + 1)
          [] c = ")" -> Token("CloseParen", "", i + 1)
          [] c = "." -> Token("PairSeparator", "", i + 1)
          [] c = "'" -> Token("Quote", "", i + 1)
          [] c = "," /\ At(src, i + 1) = "@" -> Token("UnquoteSplicing", "", i + 2)
          [] c = "," -> Token("Unquote", "", i + 1)
          [] c = Backquote -> Token("QuasiQuote", "", i + 1)
          [] OTHER ->
               IF NumberEnd(src, i) # 0
               THEN Token("Number", SubSeq(src, i, NumberEnd(src, i) - 1), NumberEnd(src, i))
               ELSE IF SymbolEnd(src, i) # 0
               THEN Token("Symbol", SubSeq(src, i, SymbolEnd(src, i) - 1), SymbolEnd(src, i))
               ELSE NoToken

\* parsing.rs 89: token.padded().repeated().then_ignore(end()), from i on
RECURSIVE lexer_from(_, _)
lexer_from(src, i) ==
    IF i > Len(src) THEN [ok |-> TRUE, tokens |-> <<>>]
    ELSE LET tk == token(src, RunEnd(src, i, Whitespace))
         IN  IF ~tk.ok THEN [ok |-> FALSE, tokens |-> <<>>]
             ELSE LET r == lexer_from(src, RunEnd(src, tk.next, Whitespace))
                  IN  [ok |-> r.ok, tokens |-> <<[kind |-> tk.kind, s |-> tk.s]>> \o r.tokens]

\* parsing.rs 52-90
lexer(src) == lexer_from(src, 1)

\* the digits src[i..j] as a number
RECURSIVE DigitsValue(_, _, _)
DigitsValue(src, i, j) ==
    IF j < i THEN 0 ELSE DigitsValue(src, i, j - 1) * 10 + DigitValue(At(src, j))

RECURSIVE Pow10(_)
Pow10(k) == IF k = 0 THEN 1 ELSE 10 * Pow10(k - 1)

\* the number of decimal digits of n > 0
RECURSIVE NumDigits(_)
NumDigits(n) == IF n < 10 THEN 1 ELSE 1 + NumDigits(n \div 10)

\* str::parse::<f64> on the text of a Number token (parsing.rs 95): the
\* decimal is kept exactly; past the range of f64 it is infinite, and below
\* it zero
parse_f64(txt) ==
    LET neg  == At(txt, 1) = "-"
        s    == IF neg THEN 2 ELSE 1
        a    == IntEnd(txt, s)
        b    == IF At(txt, a) = "." THEN RunEnd(txt, a + 1, Digits) ELSE a
        f    == IF b > a THEN b - a - 1 ELSE 0
        eneg == At(txt, b + 1) = "-"
        x    == IF At(txt, b) \in {"e", "E"}
                THEN (IF At(txt, b + 1) \in {"+", "-"} THEN b + 2 ELSE b + 1)
                ELSE 0
        ex   == IF x = 0 THEN 0
                ELSE (IF eneg THEN 0 - 1 ELSE 1) * DigitsValue(txt, x, Len(txt))
        mant == DigitsValue(txt, s, a - 1) * Pow10(f) + DigitsValue(txt, a + 1, b - 1)
        sc   == ex - f
        sign == IF neg THEN 0 - 1 ELSE 1
    IN  IF mant = 0 THEN Number(0, 1)
        ELSE IF NumDigits(mant) + sc > 309 THEN Number(sign, 0)
        ELSE IF NumDigits(mant) + sc < 0 - 323 THEN Number(0, 1)
        ELSE IF sc >= 0 THEN Frac(sign * mant * Pow10(sc), 1)
        ELSE Frac(sign * mant, Pow10(0 - sc))

\* the symbol that a reader macro token puts before its atom (parsing.rs 127-145)
ReaderSymbol(kind) ==
    CASE kind = "Quote" -> "quote"
      [] kind = "QuasiQuote" -> "quasiquote"
      [] kind = "Unquote" -> "unquote"
      [] kind = "UnquoteSplicing" -> "unquote-splicing"

KindAt(ts, i) == IF i <= Len(ts) THEN ts[i].kind ELSE "end"

PNone == [ok |-> FALSE, val |-> nil, next |-> 0]
PSome(val, next) == [ok |-> TRUE, val |-> val, next |-> next]

\* parsing.rs 93-146: the atom that begins at token i
RECURSIVE atom_at(_, _), atoms_at(_, _), list_at(_, _)
atom_at(ts, i) ==
    LET k == KindAt(ts, i)
    IN  CASE k = "Number" -> PSome(parse_f64(ts[i].s), i + 1)
          [] k = "Symbol" -> PSome(symbol(ts[i].s), i + 1)
          [] k = "OpenParen" -> list_at(ts, i)
          [] k \in {"Quote", "QuasiQuote", "Unquote", "UnquoteSplicing"} ->
               LET a == atom_at(ts, i + 1)
               IN  IF ~a.ok THEN PNone
                   ELSE PSome(Pair(symbol(ReaderSymbol(k)), Pair(a.val, nil)), a.next)
          [] OTHER -> PNone

\* atom.repeated(): the atoms from token i on, as many as there are
atoms_at(ts, i) ==
    LET a == atom_at(ts, i)
    IN  IF ~a.ok THEN [vals |-> <<>>, next |-> i]
        ELSE LET r == atoms_at(ts, a.next)
             IN  [vals |-> <<a.val>> \o r.vals, next |-> r.next]

\* parsing.rs 100-125: empty_list.or(proper_list).or(improper_list) at the
\* opening parenthesis i
list_at(ts, i) ==
    IF KindAt(ts, i + 1) = "CloseParen" THEN PSome(nil, i + 2)
    ELSE LET r == atoms_at(ts, i + 1)
         IN  IF r.vals = <<>> THEN PNone
             ELSE IF KindAt(ts, r.next) = "CloseParen"
             THEN PSome(create_list(r.vals), r.next + 1)
             ELSE IF KindAt(ts, r.next) = "PairSeparator"
             THEN LET l == atom_at(ts, r.next + 1)
                  IN  IF l.ok /\ KindAt(ts, l.next) = "CloseParen"
                      THEN PSome(create_improper_list(r.vals, l.val), l.next + 1)
                      ELSE PNone
             ELSE PNone

\* parsing.rs 92-149: atom.repeated().then_ignore(end())
parser(ts) ==
    LET r == atoms_at(ts, 1)
    IN  IF r.next > Len(ts) THEN [ok |-> TRUE, atoms |-> r.vals]
        ELSE [ok |-> FALSE, atoms |-> <<>>]

\* lexer, then parser on its tokens (main.rs 179-183)
parse(src) ==
    LET l == lexer(src)
    IN  IF ~l.ok THEN [ok |-> FALSE, atoms |-> <<>>] ELSE parser(l.tokens)

(***************************************************************************)
(* Sessions that read texts: 0..MaxPrefixes reader macro characters before *)
(* an expression.                                                          *)
(***************************************************************************)
MaxPrefixes == 2

Text(src) == [tag |-> "Text", s |-> src]
Atoms(seq) == [tag |-> "Atoms", atoms |-> seq]

\* parse of tests/mod.rs: the text is read, nothing is evaluated
Read(src) ==
    /\ LET r == parse(src)
       IN  last' = [expr |-> Text(src), before |-> env, ok |-> r.ok, val |-> Atoms(r.atoms),
                    err |-> "", log |-> <<>>]
    /\ UNCHANGED <<env, steps>>

\* the reader macro characters and the symbols they stand for
Prefixes ==
    << [src |-> "'",       name |-> "quote"],
       [src |-> Backquote, name |-> "quasiquote"],
       [src |-> ",",       name |-> "unquote"],
       [src |-> ",@",      name |-> "unquote-splicing"] >>

PrefixSeqs == UNION {[1..n -> 1..Len(Prefixes)] : n \in 0..MaxPrefixes}

\* expressions as written and as values
ReadBases ==
    << [src |-> "1",            expr |-> integer(1)],
       [src |-> "a",            expr |-> symbol("a")],
       [src |-> "(1 2 3)",      expr |-> create_list(<<integer(1), integer(2), integer(3)>>)],
       [src |-> "(1 ,a 3)",     expr |-> create_list(<<integer(1),
                                             create_list(<<symbol("unquote"), symbol("a")>>),
                                             integer(3)>>)],
       [src |-> "(f ,@a . b)",  expr |-> create_improper_list(
                                             <<symbol("f"),
                                               create_list(<<symbol("unquote-splicing"),
                                                             symbol("a")>>)>>,
                                             symbol("b"))] >>

\* the characters of the prefixes p[i..] and then the text
RECURSIVE PrefixedText(_, _, _)
PrefixedText(p, i, src) ==
    IF i > Len(p) THEN src
    ELSE Prefixes[p[i]].src \o PrefixedText(p, i + 1, src)

\* (name-of-p[i] (name-of-p[i+1] ... e))
RECURSIVE Rewritten(_, _, _)
Rewritten(p, i, e) ==
    IF i > Len(p) THEN e
    ELSE create_list(<<symbol(Prefixes[p[i]].name), Rewritten(p, i + 1, e)>>)

ReadPrefixed ==
    \E p \in PrefixSeqs, k \in 1..Len(ReadBases) : Read(PrefixedText(p, 1, ReadBases[k].src))

\* one reader macro character, a space, and the expression
ReadSpaced ==
    \E i \in 1..Len(Prefixes), k \in 1..Len(ReadBases) :
        Read(Prefixes[i].src \o " " \o ReadBases[k].src)

NextReader == ReadPrefixed \/ ReadSpaced

SpecReader == Init /\ [][NextReader]_vars

\* C26: a text that is an expression x after reader macro characters reads
\* as one expression, the lists (quote ...), (quasiquote ...), (unquote ...),
\* (unquote-splicing ...) nested in the order of the characters around x;
\* the characters ,@ are the unquote-splicing, never an unquote.
C26_ReaderRewrites ==
    /\ \A p \in PrefixSeqs, k \in 1..Len(ReadBases) :
          last.expr = Text(PrefixedText(p, 1, ReadBases[k].src)) =>
              /\ last.ok
              /\ last.val = Atoms(<<Rewritten(p, 1, ReadBases[k].expr)>>)
              /\ env = last.before
    /\ \A i \in 1..Len(Prefixes), k \in 1..Len(ReadBases) :
          last.expr = Text(Prefixes[i].src \o " " \o ReadBases[k].src) =>
              /\ last.ok
              /\ last.val = Atoms(<<create_list(<<symbol(Prefixes[i].name),
                                                  ReadBases[k].expr>>)>>)

\* ^,@(1 ,a 3) has been read as (quasiquote (unquote-splicing (1 (unquote a) 3)))
C26_Witness ==
    /\ last.expr = Text(Backquote \o ",@(1 ,a 3)")
    /\ last.ok
    /\ last.val = Atoms(<<create_list(<<symbol("quasiquote"),
                            create_list(<<symbol("unquote-splicing"),
                               create_list(<<integer(1),
                                  create_list(<<symbol("unquote"), symbol("a")>>),
                                  integer(3)>>)>>)>>)>>)

(***************************************************************************)
(* Sessions that read a text, print the expression with Debug and read     *)
(* the print again.                                                        *)
(***************************************************************************)
\* numbers and symbols as written
Leaves ==
    << "1", "0", "-5", "1.5", "-0.25", "1e2", "1e-2", "1e999", "-1e999",
       "a", "nil", "-", "+1", "inf" >>

\* the texts made of the i-th leaf and the one after it
Shaped(i) ==
    LET x == Leaves[i]
        y == Leaves[(i % Len(Leaves)) + 1]
    IN  { x,
          "(" \o x \o ")",
          "(" \o x \o " " \o y \o ")",
          "(" \o x \o " . " \o y \o ")",
          "(" \o x \o " " \o y \o " . " \o x \o ")",
          "((" \o x \o ") " \o y \o ")",
          "(" \o x \o " . (" \o y \o "))",
          "'" \o x,
          "(" \o y \o " ,@" \o x \o ")" }

RoundTexts == UNION {Shaped(i) : i \in 1..Len(Leaves)} \cup {"()", "(())", "(() . ())"}

\* the expressions that the parser produces from the texts
RoundExprs == {parse(src).atoms[1] : src \in RoundTexts}

\* a text is read
ReadText == \E src \in RoundTexts : Read(src)

\* the print with {:?} of an expression that the parser has produced is read
ReadPrint == \E e \in RoundExprs : Read(fmt_debug(e))

NextRoundTrip == ReadText \/ ReadPrint

SpecRoundTrip == Init /\ [][NextRoundTrip]_vars

\* whether an infinite number is part of the expression
RECURSIVE HasInfinite(_)
HasInfinite(a) ==
    CASE a.tag = "Number" -> IsInf(a)
      [] a.tag = "Pair" -> HasInfinite(a.car) \/ HasInfinite(a.cdr)
      [] OTHER -> FALSE

\* C27 (as stated): when the print with Debug of an expression that the
\* parser has produced is read, the result is one expression, equal to the
\* one printed.
C27_AsStated ==
    \A e \in RoundExprs :
        last.expr = Text(fmt_debug(e)) => (last.ok /\ last.val = Atoms(<<e>>))

\* C27, expressions without an infinite number: the print reads back as the
\* expression.
C27_FiniteRoundTrip ==
    \A e \in RoundExprs :
        (last.expr = Text(fmt_debug(e)) /\ ~HasInfinite(e)) =>
            (last.ok /\ last.val = Atoms(<<e>>))

(***************************************************************************)
(* Sessions about the number of operands of (define name ...).             *)
(***************************************************************************)
MaxDefineOperands == 3

\* the operands that follow the name: 0..MaxDefineOperands value expressions
DefineOperandSeqs == UNION {[1..k -> DefineValues] : k \in 0..MaxDefineOperands}

\* (define name o1 ... ok)
DefineWith(name, ops) == create_list(<<symbol("define"), symbol(name)>> \o ops)

\* (define)
DefineAlone == create_list(<<symbol("define")>>)

DefineOperands ==
    \E name \in DefNames, ops \in DefineOperandSeqs : Repl(DefineWith(name, ops))

DefineNothing == Repl(DefineAlone)

NextDefineArity == DefineOperands \/ DefineNothing \/ EvalName

SpecDefineArity == Init /\ [][NextDefineArity]_vars

\* the form fails on its shape: nothing of it is evaluated, nothing is bound
RejectedDefine ==
    /\ ~last.ok
    /\ last.err = ErrDefineForm
    /\ last.log = <<Ev(last.expr), Ev(symbol("define"))>>
    /\ env = last.before

\* C28 (as stated): a define form whose first operand is a symbol and that has
\* fewer or more than two operands fails with the error of the form's arity,
\* evaluates none of its operands and leaves the environment unchanged.
C28_AsStated ==
    /\ last.expr = DefineAlone => RejectedDefine
    /\ \A name \in DefNames, ops \in DefineOperandSeqs :
          (last.expr = DefineWith(name, ops) /\ Len(ops) # 1) => RejectedDefine

\* C28, the part the code keeps: a define form with fewer than two operands is
\* rejected; one with two operands or more does what (define name value) does
\* with its second operand, and the operands after it are not evaluated.
C28_FewerRejectedMoreIgnored ==
    /\ last.expr = DefineAlone => RejectedDefine
    /\ \A name \in DefNames, ops \in DefineOperandSeqs :
          last.expr = DefineWith(name, ops) =>
              IF Len(ops) = 0 THEN RejectedDefine
              ELSE LET value == old_eval(ops[1], last.before, MaxDepth)
                   IN  /\ last.ok = value.ok
                       /\ last.log = <<Ev(last.expr), Ev(symbol("define"))>> \o value.log
                       /\ IF value.ok
                          THEN /\ last.val = symbol(name)
                               /\ env = EnvSet(last.before, name, value.val)
                          ELSE /\ last.err = value.err
                               /\ env = last.before

(***************************************************************************)
(* Sessions about what a closure sees of the environment it was created    *)
(* in, after that environment has changed.                                 *)
(***************************************************************************)
\* the values x is defined to
SnapshotValues == 1..MaxArg

\* the closure created while x was v is named after v
LambdaName(v) == "f" \o ToString(v)
FunctionName(v) == "g" \o ToString(v)

\* (define fv (lambda () x))
CreateByLambda(v) ==
    Define(LambdaName(v), create_list(<<symbol("lambda"), nil, symbol("x")>>))

\* (define (gv) x)
CreateByDefine(v) ==
    create_list(<<symbol("define"), create_list(<<symbol(FunctionName(v))>>), symbol("x")>>)

\* (cons (define x w) (name)): x is defined again, then the closure is called
RedefineThenCall(w, name) ==
    create_list(<<symbol("cons"), Define("x", integer(w)), Call(symbol(name), <<>>)>>)

\* ((lambda (x) (name)) w): the closure is called where the caller binds x
CallWhereBound(w, name) ==
    Call(create_list(<<symbol("lambda"), create_list(<<symbol("x")>>), Call(symbol(name), <<>>)>>),
         <<integer(w)>>)

\* ((lambda () (define x v) (define h (lambda () x)) (define x w) (h))): the
\* defining environment is the frame of a call
SnapshotInFrame(v, w) ==
    Call(create_list(<<symbol("lambda"), nil,
                       Define("x", integer(v)),
                       Define("h", create_list(<<symbol("lambda"), nil, symbol("x")>>)),
                       Define("x", integer(w)),
                       Call(symbol("h"), <<>>)>>), <<>>)

SnapshotNames == {LambdaName(v) : v \in SnapshotValues} \cup {FunctionName(v) : v \in SnapshotValues}

\* the value the closure named name was created under
CreatedUnder(name) == CHOOSE v \in SnapshotValues : name \in {LambdaName(v), FunctionName(v)}

DefineX == \E v \in SnapshotValues : Repl(Define("x", integer(v)))

\* the closures are created where x is bound, and named after its value
CreateLambda ==
    \E v \in SnapshotValues :
        /\ EnvGet(env, "x") = [ok |-> TRUE, val |-> integer(v)]
        /\ Repl(CreateByLambda(v))

CreateFunction ==
    \E v \in SnapshotValues :
        /\ EnvGet(env, "x") = [ok |-> TRUE, val |-> integer(v)]
        /\ Repl(CreateByDefine(v))

CallSnapshot == \E name \in SnapshotNames : Repl(Call(symbol(name), <<>>))

RedefineAndCall ==
    \E w \in SnapshotValues, name \in SnapshotNames : Repl(RedefineThenCall(w, name))

CallFromBinder ==
    \E w \in SnapshotValues, name \in SnapshotNames : Repl(CallWhereBound(w, name))

CreateAndCallInFrame == \E v \in SnapshotValues, w \in SnapshotValues : Repl(SnapshotInFrame(v, w))

NextSnapshot ==
    \/ DefineX
    \/ CreateLambda
    \/ CreateFunction
    \/ CallSnapshot
    \/ RedefineAndCall
    \/ CallFromBinder
    \/ CreateAndCallInFrame

SpecSnapshot == Init /\ [][NextSnapshot]_vars

\* whether the name is bound to a closure
BoundToClosure(e, name) == EnvGet(e, name).ok /\ EnvGet(e, name).val.tag = "Closure"

\* C29: a closure whose body is the name x, created where x was bound to v,
\* gives v in every later call: when x has been defined to another value in
\* the environment the closure was created in (at top level or in the frame
\* of a call), when x is defined again by an operand of the calling
\* expression, and when the caller's frame binds x.
C29_ClosureSnapshot ==
    /\ \A name \in SnapshotNames :
          BoundToClosure(last.before, name) =>
              /\ last.expr = Call(symbol(name), <<>>) =>
                    /\ last.ok
                    /\ last.val = integer(CreatedUnder(name))
                    /\ env = last.before
              /\ \A w \in SnapshotValues :
                    /\ last.expr = RedefineThenCall(w, name) =>
                          /\ last.ok
                          /\ last.val = Pair(symbol("x"), integer(CreatedUnder(name)))
                          /\ env = EnvSet(last.before, "x", integer(w))
                    /\ last.expr = CallWhereBound(w, name) =>
                          /\ last.ok
                          /\ last.val = integer(CreatedUnder(name))
                          /\ env = last.before
    /\ \A v \in SnapshotValues, w \in SnapshotValues :
          last.expr = SnapshotInFrame(v, w) =>
              /\ last.ok
              /\ last.val = integer(v)
              /\ env = last.before

\* f1 was created while x was 1; (cons (define x 2) (f1)) has defined x to 2
\* at top level and the call after it has given 1
C29_Witness ==
    /\ last.expr = RedefineThenCall(2, LambdaName(1))
    /\ BoundToClosure(last.before, LambdaName(1))
    /\ last.ok
    /\ last.val = Pair(symbol("x"), integer(1))
    /\ EnvGet(env, "x") = [ok |-> TRUE, val |-> integer(2)]

(***************************************************************************)
(* Sessions about define and defmacro in the body of a closure or a macro. *)
(***************************************************************************)
\* (defmacro (k) 1)
InnerMacro == DefMacro("k", nil, create_list(<<integer(1)>>))

\* the closures and macros whose bodies define:
\*   (define (f p) (define a p) (define q 5) a)
\*   (define (fm) (defmacro (k) 1) (k))
\*   (defmacro (m) (define a 7) a)
\*   (defmacro (mk) (defmacro (k) 1) 2)
BodyDefiners ==
    << DefineFunction("f", create_list(<<symbol("p")>>),
                      create_list(<<Define("a", symbol("p")), Define("q", integer(5)), symbol("a")>>)),
       DefineFunction("fm", nil, create_list(<<InnerMacro, Call(symbol("k"), <<>>)>>)),
       DefMacro("m", nil, create_list(<<Define("a", integer(7)), symbol("a")>>)),
       DefMacro("mk", nil, create_list(<<InnerMacro, integer(2)>>)) >>

\* the operand of (f operand): a number, a define of b, the name a
BodyOperands == <<integer(4), Define("b", integer(3)), symbol("a")>>

\* the calls: (f operand), (fm), (m), (mk)
BodyCalls ==
    [i \in 1..Len(BodyOperands) |-> Call(symbol("f"), <<BodyOperands[i]>>)]
    \o <<Call(symbol("fm"), <<>>), Call(symbol("m"), <<>>), Call(symbol("mk"), <<>>)>>

\* the names a body defines
BodyNames == <<"a", "q", "k">>

\* ((lambda (a) call probe) 1): the call is made from a frame that binds a,
\* and the name probe is evaluated in that frame after it
CallThenProbe(i, n) ==
    Call(create_list(<<symbol("lambda"), create_list(<<symbol("a")>>), BodyCalls[i],
                       symbol(BodyNames[n])>>), <<integer(1)>>)

CreateBodyDefiner == \E i \in 1..Len(BodyDefiners) : Repl(BodyDefiners[i])

DefineCallerName == \E v \in 1..MaxArg : Repl(Define("a", integer(v)))

CallBodyDefiner == \E i \in 1..Len(BodyCalls) : Repl(BodyCalls[i])

CallBodyDefinerInFrame ==
    \E i \in 1..Len(BodyCalls), n \in 1..Len(BodyNames) : Repl(CallThenProbe(i, n))

ProbeName == \E n \in 1..Len(BodyNames) : Repl(symbol(BodyNames[n]))

NextBodyDefine ==
    \/ CreateBodyDefiner
    \/ DefineCallerName
    \/ CallBodyDefiner
    \/ CallBodyDefinerInFrame
    \/ ProbeName

SpecBodyDefine == Init /\ [][NextBodyDefine]_vars

\* C30: a define or defmacro in the body of a closure or of a macro binds in
\* the frame of the call only.  After a call at top level the environment,
\* with the closures and macros bound in it and what they captured, is what
\* it was before the call, but for the binding an operand of a closure has
\* made there; after a call from a frame that binds a, a is what it was in
\* that frame and the names q and k that only a body defines are not bound.
C30_BodyDefinesInCallFrame ==
    /\ \A i \in 1..Len(BodyCalls) :
          last.expr = BodyCalls[i] =>
              IF i = 2 /\ BoundToClosure(last.before, "f")
              THEN env = EnvSet(last.before, "b", integer(3))
              ELSE env = last.before
    /\ \A i \in 1..Len(BodyCalls), n \in 1..Len(BodyNames) :
          last.expr = CallThenProbe(i, n) =>
              /\ env = last.before
              /\ IF n = 1 THEN last.ok => last.val = integer(1)
                 ELSE ~last.ok /\ last.err = ErrUnbound
    /\ \A n \in 2..Len(BodyNames) :
          last.expr = symbol(BodyNames[n]) => ~last.ok /\ last.err = ErrUnbound

\* a was 1 at top level, (f 4) has defined a and q in its frame and given 4,
\* and a is still 1 and q unbound
C30_Witness ==
    /\ last.expr = BodyCalls[1]
    /\ last.ok
    /\ last.val = integer(4)
    /\ EnvGet(env, "a") = [ok |-> TRUE, val |-> integer(1)]
    /\ ~EnvGet(env, "q").ok

====
